---- MODULE Spec2Model ----
(***************************************************************************)
(* Model of Diffusion/GDD_weighted_diffusion.py: the distributed work      *)
(* partitioner (distribute_nodes, distribute_pathways, distribute_runs),   *)
(* the weighted Laplacian builder, the perturbation operators and the      *)
(* knockout sweep run_knockout_analysis.                                   *)
(*                                                                         *)
(* Strings that the code takes apart or puts together (node names such as  *)
(* "TP53.p", pipe-delimited gene lists) are sequences of one-character     *)
(* strings, so that f"{base}.p", str.split and "in G" are computed.        *)
(* Edge weights and reduction factors are integers (a fixed scale of the   *)
(* reals the code uses): the operators only replace and add weights.       *)
(***************************************************************************)
EXTENDS Integers, Sequences, FiniteSets, TLC

VARIABLES
    \* ---- distributed work partitioner (one startup per rank) ----
    nodes_to_investigate_bases, \* list of base names handed to distribute_nodes
    pathways,                   \* list of pathway descriptions
    permu_runs,                 \* args.permu_runs
    size,                       \* comm.Get_size()
    rank_pc,                    \* rank -> position in the startup code
    pathways_subset,            \* rank -> result of distribute_pathways
    nodes_subset,               \* rank -> result of distribute_nodes
    run_indices,                \* rank -> result of distribute_runs
    \* ---- the ranks' processes, their results, gather and merge ----
    args,                       \* parsed command line (koh, kob, pathway, path_size_range)
    hash_seed,                  \* rank -> the string-hash seed of the rank's process
    local_target_results,       \* rank -> the rank's mapping of target results
    local_rand_results,         \* rank -> the rank's mapping of random-run results
    combined_results,           \* the merged mappings written by rank 0
    \* ---- graphs, perturbation operators, knockout sweep ----
    heap,               \* edge-data dicts of all live graphs: cell -> 'weight'
    G_aggro,            \* weighted_G_cms_ALL (nodes in order, edge -> its data dict)
    G_stable,           \* weighted_G_cms_123
    loaded,             \* the two graphs' nodes, edges and weights as first built
    pathway_df,         \* pathway table: rows of (description, genes)
    ret,                \* what the last direct operator call returned
    held,               \* the graph returned by the call before, kept by the caller
    exc,                \* exception raised by the last call or sweep, or None
    last_call,          \* the last direct call: operator, graph and arguments
    orig_aggro_kernel,          \* kernels of the aggressive graph as loaded
    orig_non_mesench_kernel,    \* kernels of the stable graph as loaded
    sweep               \* the running call of run_knockout_analysis

driver_vars == <<args, hash_seed, local_target_results, local_rand_results,
                 combined_results>>

part_vars == <<nodes_to_investigate_bases, pathways, permu_runs, size, rank_pc,
               pathways_subset, nodes_subset, run_indices, driver_vars>>

knock_vars == <<heap, G_aggro, G_stable, loaded, pathway_df, ret, held, exc, last_call,
                orig_aggro_kernel, orig_non_mesench_kernel, sweep>>

vars == <<part_vars, knock_vars>>

----------------------------------------------------------------------------
(* Bounds of the model *)

MaxNodes == 3       \* longest list of base names
MaxPathways == 3    \* longest list of pathways
MaxRuns == 4        \* largest args.permu_runs
MaxSize == 3        \* largest number of ranks

\* Base entity names (gene symbols); a list may name one twice, as the list
\* derived from the graph's nodes does (X.p and X.t both give X).
BaseNames == {<<"a">>, <<"b">>}

\* Pathway descriptions: unique keys of the pathway table.
AllPathways == <<"P1", "P2", "P3", "P4", "P5", "P6">>

None == "None"

----------------------------------------------------------------------------
(* Python built-ins used by the partitioner *)

Min(a, b) == IF a <= b THEN a ELSE b

\* s[a:b] for 0 <= a, 0 <= b: indices are clamped to len(s).
PySlice(s, a, b) ==
    LET lo == Min(a, Len(s))
        hi == Min(b, Len(s))
    IN  IF lo >= hi THEN <<>> ELSE SubSeq(s, lo + 1, hi)

\* range(a, b) as the list of its elements.
PyRange(a, b) == IF b <= a THEN <<>> ELSE [i \in 1..(b - a) |-> a + i - 1]

\* All lists over S of length at most n.
SeqUpTo(S, n) == UNION {[1..k -> S] : k \in 0..n}

RECURSIVE Concat(_, _)
\* f[0] \o f[1] \o ... \o f[n-1]
Concat(f, n) == IF n = 0 THEN <<>> ELSE Concat(f, n - 1) \o f[n - 1]

----------------------------------------------------------------------------
(* The partitioner *)

\* A partitioner whose blocks all take the extra item, so that they overlap
\* or run past the end.
distribute_nodes_extra(nodes, rank, sz) ==
    LET num_nodes == Len(nodes)
        nodes_per_proc == num_nodes \div sz
        start_index == rank * nodes_per_proc
    IN  PySlice(nodes, start_index, start_index + nodes_per_proc + 1)

distribute_nodes(nodes, rank, sz) ==
    LET num_nodes == Len(nodes)
        nodes_per_proc == num_nodes \div sz
        remainder == num_nodes % sz
        start_index == IF rank < remainder
                       THEN rank * (nodes_per_proc + 1)
                       ELSE remainder * (nodes_per_proc + 1)
                            + (rank - remainder) * nodes_per_proc
        end_index == IF rank < remainder
                     THEN start_index + nodes_per_proc + 1
                     ELSE start_index + nodes_per_proc
    IN  PySlice(nodes, start_index, end_index)

\* A partitioner that gives every rank floor(N/size) items and the rest to
\* the last rank.
distribute_pathways_rest_to_last(pws, rank, sz) ==
    LET num_pathways == Len(pws)
        pathways_per_proc == num_pathways \div sz
        start_index == rank * pathways_per_proc
        end_index == IF rank # sz - 1 THEN start_index + pathways_per_proc
                     ELSE num_pathways
    IN  PySlice(pws, start_index, end_index)

distribute_pathways(pws, rank, sz) ==
    LET num_pathways == Len(pws)
        pathways_per_proc == num_pathways \div sz
        remainder == num_pathways % sz
        start_index == IF rank < remainder
                       THEN rank * (pathways_per_proc + 1)
                       ELSE remainder * (pathways_per_proc + 1)
                            + (rank - remainder) * pathways_per_proc
        end_index == IF rank < remainder
                     THEN start_index + pathways_per_proc + 1
                     ELSE start_index + pathways_per_proc
    IN  PySlice(pws, start_index, end_index)

\* The run indices partitioned by the rule of distribute_nodes.
distribute_runs_balanced(total_runs, rank, sz) ==
    LET runs_per_rank == total_runs \div sz
        remainder == total_runs % sz
        start_run == IF rank < remainder THEN rank * (runs_per_rank + 1)
                     ELSE remainder * (runs_per_rank + 1) + (rank - remainder) * runs_per_rank
        end_run == IF rank < remainder THEN start_run + runs_per_rank + 1
                   ELSE start_run + runs_per_rank
    IN  PyRange(start_run, end_run)

distribute_runs(total_runs, rank, sz) ==
    LET runs_per_rank == total_runs \div sz
        start_run == rank * runs_per_rank
        end_run == IF rank # sz - 1 THEN start_run + runs_per_rank ELSE total_runs
    IN  PyRange(start_run, end_run)

----------------------------------------------------------------------------
(* Startup of the ranks: every rank partitions the pathway list, the node  *)
(* list and the run indices, in the order of the script.                   *)

Ranks == 0..(size - 1)

\* The sweep driver is not part of the run: default arguments, nothing
\* computed or gathered.
\* combined_results before the merge
NoCombined == [kind |-> "None"]

DriverIdle(ranks) ==
    /\ args = [koh |-> 0, kob |-> 0, pathway |-> FALSE, path_size_range |-> <<0, 0>>]
    /\ hash_seed = [r \in ranks |-> 0]
    /\ local_target_results = [r \in ranks |-> None]
    /\ local_rand_results = [r \in ranks |-> None]
    /\ combined_results = NoCombined

PartInit ==
    /\ nodes_to_investigate_bases \in SeqUpTo(BaseNames, MaxNodes)
    /\ pathways \in {SubSeq(AllPathways, 1, k) : k \in 0..MaxPathways}
    /\ permu_runs \in 0..MaxRuns
    /\ size \in 1..MaxSize
    /\ rank_pc = [r \in 0..(size - 1) |-> "pathways"]
    /\ pathways_subset = [r \in 0..(size - 1) |-> None]
    /\ nodes_subset = [r \in 0..(size - 1) |-> None]
    /\ run_indices = [r \in 0..(size - 1) |-> None]
    /\ DriverIdle(0..(size - 1))

RankDistributePathways(rank) ==
    /\ rank_pc[rank] = "pathways"
    /\ pathways_subset' = [pathways_subset EXCEPT
                             ![rank] = distribute_pathways(pathways, rank, size)]
    /\ rank_pc' = [rank_pc EXCEPT ![rank] = "nodes"]
    /\ UNCHANGED <<nodes_to_investigate_bases, pathways, permu_runs, size,
                   nodes_subset, run_indices, driver_vars, knock_vars>>

RankDistributeNodes(rank) ==
    /\ rank_pc[rank] = "nodes"
    /\ nodes_subset' = [nodes_subset EXCEPT
                          ![rank] = distribute_nodes(nodes_to_investigate_bases, rank, size)]
    /\ rank_pc' = [rank_pc EXCEPT ![rank] = "runs"]
    /\ UNCHANGED <<nodes_to_investigate_bases, pathways, permu_runs, size,
                   pathways_subset, run_indices, driver_vars, knock_vars>>

RankDistributeRuns(rank) ==
    /\ rank_pc[rank] = "runs"
    /\ run_indices' = [run_indices EXCEPT
                         ![rank] = distribute_runs(permu_runs, rank, size)]
    /\ rank_pc' = [rank_pc EXCEPT ![rank] = "done"]
    /\ UNCHANGED <<nodes_to_investigate_bases, pathways, permu_runs, size,
                   pathways_subset, nodes_subset, driver_vars, knock_vars>>

PartNext ==
    \E rank \in Ranks :
        \/ RankDistributePathways(rank)
        \/ RankDistributeNodes(rank)
        \/ RankDistributeRuns(rank)

----------------------------------------------------------------------------
(* Names.  A node of the multiplex graph is the base name followed by the  *)
(* layer suffix ".p" (proteomics) or ".t" (transcriptomics).               *)

\* f"{node_to_isolate_base}.p" / f"{node_to_isolate_base}.t"
ProteomicsName(base) == base \o <<".", "p">>
TranscriptomicsName(base) == base \o <<".", "t">>

RECURSIVE Split(_, _)
\* str.split(sep) for a one-character separator
Split(s, sep) ==
    IF \E i \in 1..Len(s) : s[i] = sep
    THEN LET i == CHOOSE k \in 1..Len(s) :
                      s[k] = sep /\ \A j \in 1..(k - 1) : s[j] # sep
         IN  <<SubSeq(s, 1, i - 1)>> \o Split(SubSeq(s, i + 1, Len(s)), sep)
    ELSE <<s>>

RECURSIVE Flatten(_)
\* the lists of a list, one after the other
Flatten(ss) == IF ss = <<>> THEN <<>> ELSE Head(ss) \o Flatten(Tail(ss))

RECURSIVE SumTo(_, _)
\* f[1] + ... + f[n]
SumTo(f, n) == IF n = 0 THEN 0 ELSE f[n] + SumTo(f, n - 1)

Range(f) == {f[x] : x \in DOMAIN f}

----------------------------------------------------------------------------
(* networkx graphs.  A Graph object is its node list (insertion order) and *)
(* adj: for every undirected edge {u, v} the edge-data dict shared by      *)
(* G[u][v] and G[v][u].  A data dict is a cell of the heap holding the     *)
(* edge's 'weight'; two graphs that map an edge to the same cell share     *)
(* that dict.                                                              *)

NoEdges == [e \in {} |-> 0]

NodeSet(G) == Range(G.nodes)
EdgeSet(G) == DOMAIN G.adj
Cells(G) == Range(G.adj)

\* G[n]: the neighbours of n
Neighbors(G, n) == {m \in NodeSet(G) : {n, m} \in EdgeSet(G)}

\* the nodes, edges and weights of a graph, without the identity of its dicts
GraphValue(h, G) == [nodes |-> G.nodes, w |-> [e \in EdgeSet(G) |-> h[G.adj[e]]]]

\* A dict is named <<owner, e>>: the dict of edge e made for the graph in
\* slot `owner` of the state; a graph under construction owns its dicts under
\* the name "new" until a variable is bound to it.
SlotNew == "new"

\* Slots of the state's graphs
SlotAggro == "G_aggro"
SlotStable == "G_stable"
SlotHeld == "held"
SlotRet == "ret"
SlotSweepAggro == "knockdown_graph_aggro"
SlotSweepStable == "knockdown_graph_stable"

\* A graph built from a value: a new dict for every edge.
NewGraph(h, value) ==
    LET adj == [e \in DOMAIN value.w |-> <<SlotNew, e>>]
    IN  [heap |-> [c \in DOMAIN h \cup Range(adj) |->
                     IF c \in DOMAIN h THEN h[c] ELSE value.w[c[2]]],
         graph |-> [nodes |-> value.nodes, adj |-> adj]]

\* A copy that shares the edge-data dicts with the original.
GraphCopyShared(h, G) == [heap |-> h, graph |-> G]

\* G.copy(): same nodes in the same order, same edges, and for every edge a
\* new data dict with the same contents.
GraphCopy(h, G) == NewGraph(h, GraphValue(h, G))

\* modified_graph.remove_edges_from(edges)
RemoveEdges(M, edges) ==
    [nodes |-> M.nodes, adj |-> [e \in EdgeSet(M) \ edges |-> M.adj[e]]]

\* Multiplicative scaling of the incident weights (the earlier variant of the
\* knockdown) in place of replacement.
\* The weight of every edge at the node lowered by the factor.
LowerIncidentWeights(h, G, M, node, reduced_weight) ==
    LET written == {M.adj[{node, nb}] : nb \in Neighbors(G, node)}
    IN  [c \in DOMAIN h |-> IF c \in written THEN h[c] - reduced_weight ELSE h[c]]

ScaleIncidentWeights(h, G, M, node, reduced_weight) ==
    LET written == {M.adj[{node, nb}] : nb \in Neighbors(G, node)}
    IN  [c \in DOMAIN h |-> IF c \in written THEN h[c] * reduced_weight ELSE h[c]]

\* for neighbor in G[node]:
\*     modified_graph[node][neighbor]['weight'] = reduced_weight
\*     modified_graph[neighbor][node]['weight'] = reduced_weight
SetIncidentWeights(h, G, M, node, reduced_weight) ==
    LET written == {M.adj[{node, nb}] : nb \in Neighbors(G, node)}
    IN  [c \in DOMAIN h |-> IF c \in written THEN reduced_weight ELSE h[c]]

----------------------------------------------------------------------------
(* Laplacian builder *)

\* nx.to_numpy_array(G, nodelist=node_order, weight='weight')
WeightedAdjacency(h, G) ==
    LET n == Len(G.nodes)
    IN  [i \in 1..n |-> [j \in 1..n |->
           IF {G.nodes[i], G.nodes[j]} \in EdgeSet(G)
           THEN h[G.adj[{G.nodes[i], G.nodes[j]}]]
           ELSE 0]]

\* A Laplacian whose degree matrix counts the neighbours instead of adding
\* their weights.
unweighted_degree_laplacian_matrix(h, G) ==
    LET n == Len(G.nodes)
        W == WeightedAdjacency(h, G)
        D == [i \in 1..n |-> [j \in 1..n |->
                IF i = j THEN Cardinality(Neighbors(G, G.nodes[i])) ELSE 0]]
    IN  [i \in 1..n |-> [j \in 1..n |-> D[i][j] - W[i][j]]]

weighted_laplacian_matrix(h, G) ==
    LET n == Len(G.nodes)
        W == WeightedAdjacency(h, G)
        D == [i \in 1..n |-> [j \in 1..n |-> IF i = j THEN SumTo(W[i], n) ELSE 0]]
    IN  [i \in 1..n |-> [j \in 1..n |-> D[i][j] - W[i][j]]]

\* nx.laplacian_matrix(G): D - A as a sparse matrix, same node order.
nx_laplacian_matrix(h, G) ==
    [sparse |-> TRUE, m |-> weighted_laplacian_matrix(h, G)]

Dense(L) == [sparse |-> FALSE, m |-> L]

----------------------------------------------------------------------------
(* Connected components of G.subgraph(nodes) *)

RECURSIVE Reach(_, _)
\* the nodes of G reachable from S
Reach(G, S) ==
    LET S2 == S \cup {m \in NodeSet(G) : \E s \in S : {s, m} \in EdgeSet(G)}
    IN  IF S2 = S THEN S ELSE Reach(G, S2)

\* Components taken in the whole graph and then cut down to the listed nodes.
ComponentThroughGraph(G, sub, S) == Reach(G, S) \cap sub

RECURSIVE Component(_, _, _)
\* the nodes of `sub` reachable from S inside `sub`
Component(G, sub, S) ==
    LET S2 == S \cup {m \in sub : \E s \in S : {s, m} \in EdgeSet(G)}
    IN  IF S2 = S THEN S ELSE Component(G, sub, S2)

RECURSIVE ComponentLengths(_, _, _, _)
\* [len(c) for c in nx.connected_components(G.subgraph(nodes))], components
\* taken by their first node in the graph's node order
ComponentLengths(G, sub, i, seen) ==
    IF i > Len(G.nodes) THEN <<>>
    ELSE IF G.nodes[i] \notin sub \/ G.nodes[i] \in seen
         THEN ComponentLengths(G, sub, i + 1, seen)
         ELSE LET c == Component(G, sub, {G.nodes[i]})
              IN  <<Cardinality(c)>> \o ComponentLengths(G, sub, i + 1, seen \cup c)

\* Component sizes with every listed node that is not in G counted as a
\* component of its own.
SubgraphComponentLengthsWithAbsent(G, node_list) ==
    ComponentLengths(G, Range(node_list) \cap NodeSet(G), 1, {})
    \o [k \in 1..Cardinality(Range(node_list) \ NodeSet(G)) |-> 1]

\* the component sizes of the subgraph of G induced on the listed nodes
\* (listed nodes that are not in G are not in the subgraph)
SubgraphComponentLengths(G, node_list) ==
    ComponentLengths(G, Range(node_list) \cap NodeSet(G), 1, {})

----------------------------------------------------------------------------
(* Perturbation operators.  Each takes the heap and a graph and gives the  *)
(* heap after the call with either the returned tuple or the exception     *)
(* that left the function.                                                 *)

NoReturn == [kind |-> "None"]
NoGraph == [nodes |-> <<>>, adj |-> NoEdges]

Returned(h, value) == [heap |-> h, exc |-> None, value |-> value]
Raised(h, e) == [heap |-> h, exc |-> e, value |-> NoReturn]

\* A knockout that returns the Laplacian of the graph it was given.
knockout_node_stale_laplacian(h, G, node_to_isolate) ==
    LET copy == GraphCopy(h, G)
        edges_to_remove == {{node_to_isolate, nb} : nb \in Neighbors(G, node_to_isolate)}
        modified_graph == RemoveEdges(copy.graph, edges_to_remove)
        new_laplacian == weighted_laplacian_matrix(copy.heap, G)
    IN  Returned(copy.heap,
                 [kind |-> "knockout_node",
                  modified_graph |-> modified_graph,
                  new_laplacian |-> Dense(new_laplacian)])

knockout_node(h, G, node_to_isolate) ==
    LET copy == GraphCopy(h, G)
        \* list(G.edges(node_to_isolate)): no edges for a node not in G
        edges_to_remove == {{node_to_isolate, nb} : nb \in Neighbors(G, node_to_isolate)}
        modified_graph == RemoveEdges(copy.graph, edges_to_remove)
        new_laplacian == weighted_laplacian_matrix(copy.heap, modified_graph)
    IN  Returned(copy.heap,
                 [kind |-> "knockout_node",
                  modified_graph |-> modified_graph,
                  new_laplacian |-> Dense(new_laplacian)])

RECURSIVE ReduceNodes(_, _, _, _, _, _)
\* The loop over the nodes to isolate: for each node in turn, the weights of
\* the edges it has in G are replaced in modified_graph.  With `guarded` a
\* node that is not in G is skipped; without it G[node] raises KeyError and
\* the writes made so far stay.
ReduceNodes(h, G, M, node_seq, reduced_weight, guarded) ==
    IF node_seq = <<>> THEN [heap |-> h, exc |-> None]
    ELSE IF Head(node_seq) \in NodeSet(G)
         THEN ReduceNodes(SetIncidentWeights(h, G, M, Head(node_seq), reduced_weight),
                          G, M, Tail(node_seq), reduced_weight, guarded)
         ELSE IF guarded
              THEN ReduceNodes(h, G, M, Tail(node_seq), reduced_weight, guarded)
              ELSE [heap |-> h, exc |-> "KeyError"]

knockdown_node_both_layers(h, G, node_to_isolate_base, reduced_weight) ==
    LET copy == GraphCopy(h, G)
        modified_graph == copy.graph
        node_to_isolate_proteomics == ProteomicsName(node_to_isolate_base)
        node_to_isolate_transcriptomics == TranscriptomicsName(node_to_isolate_base)
        loop == ReduceNodes(copy.heap, G, modified_graph,
                            <<node_to_isolate_proteomics, node_to_isolate_transcriptomics>>,
                            reduced_weight, FALSE)
    IN  IF loop.exc # None THEN Raised(loop.heap, loop.exc)
        ELSE Returned(loop.heap,
                      [kind |-> "knockdown_node_both_layers",
                       modified_graph |-> modified_graph,
                       new_laplacian |-> Dense(weighted_laplacian_matrix(loop.heap, modified_graph)),
                       num_disconnected_components |-> 1,
                       connected_components_lengths |-> 1,
                       num_nodes |-> 1])

\* The genes of every row of the table, whatever its description.
AllRowsBaseNodeNames(df, pathway_description) ==
    Flatten([k \in 1..Len(df) |-> Split(df[k].genes, "|")])

\* the genes of the rows of the table whose description is the given one
PathwayBaseNodeNames(df, pathway_description) ==
    LET IsRow(row) == row.description = pathway_description
        rows == SelectSeq(df, IsRow)
    IN  Flatten([k \in 1..Len(rows) |-> Split(rows[k].genes, "|")])

RECURSIVE LayerPairsProteomicsOnly(_)
\* The proteomics node of each base name only.
LayerPairsProteomicsOnly(bases) ==
    IF bases = <<>> THEN <<>>
    ELSE <<ProteomicsName(Head(bases))>> \o LayerPairsProteomicsOnly(Tail(bases))

RECURSIVE LayerPairs(_)
\* [b1.p, b1.t, b2.p, b2.t, ...]: the order in which the loops visit the nodes
LayerPairs(bases) ==
    IF bases = <<>> THEN <<>>
    ELSE <<ProteomicsName(Head(bases)), TranscriptomicsName(Head(bases))>>
         \o LayerPairs(Tail(bases))

knockdown_pathway_nodes(h, G, df, pathway_description, reduced_weight) ==
    LET base_node_names == PathwayBaseNodeNames(df, pathway_description)
        copy == GraphCopy(h, G)
        modified_graph == copy.graph
        loop == ReduceNodes(copy.heap, G, modified_graph, LayerPairs(base_node_names),
                            reduced_weight, TRUE)
        pathway_nodes_with_suffixes ==
            [k \in 1..Len(base_node_names) |-> ProteomicsName(base_node_names[k])]
            \o [k \in 1..Len(base_node_names) |-> TranscriptomicsName(base_node_names[k])]
        connected_components_lengths ==
            SubgraphComponentLengths(modified_graph, pathway_nodes_with_suffixes)
    IN  Returned(loop.heap,
                 [kind |-> "knockdown_pathway_nodes",
                  modified_graph |-> modified_graph,
                  new_laplacian |-> Dense(weighted_laplacian_matrix(loop.heap, modified_graph)),
                  num_disconnected_components |-> Len(connected_components_lengths),
                  connected_components_lengths |-> connected_components_lengths,
                  num_nodes |-> Len(pathway_nodes_with_suffixes)])

\* The random knockdown without the `if node_to_isolate in G` guard.
knockdown_random_nodes_unguarded(h, G, node_list, reduced_weight) ==
    LET copy == GraphCopy(h, G)
        modified_graph == copy.graph
        loop == ReduceNodes(copy.heap, G, modified_graph, node_list, reduced_weight, FALSE)
        connected_components_lengths == SubgraphComponentLengths(modified_graph, node_list)
    IN  IF loop.exc # None THEN Raised(loop.heap, loop.exc)
        ELSE Returned(loop.heap,
                      [kind |-> "knockdown_random_nodes",
                       modified_graph |-> modified_graph,
                       new_laplacian |-> nx_laplacian_matrix(loop.heap, modified_graph),
                       num_disconnected_components |-> Len(connected_components_lengths),
                       connected_components_lengths |-> connected_components_lengths,
                       num_nodes |-> Len(node_list)])

knockdown_random_nodes(h, G, node_list, reduced_weight) ==
    LET copy == GraphCopy(h, G)
        modified_graph == copy.graph
        loop == ReduceNodes(copy.heap, G, modified_graph, node_list, reduced_weight, TRUE)
        connected_components_lengths == SubgraphComponentLengths(modified_graph, node_list)
    IN  Returned(loop.heap,
                 [kind |-> "knockdown_random_nodes",
                  modified_graph |-> modified_graph,
                  new_laplacian |-> nx_laplacian_matrix(loop.heap, modified_graph),
                  num_disconnected_components |-> Len(connected_components_lengths),
                  connected_components_lengths |-> connected_components_lengths,
                  num_nodes |-> Len(node_list)])

----------------------------------------------------------------------------
(* generate_node_combinations: the pool of random node combinations        *)

\* node.endswith('.p')
EndsWith(str, suffix) ==
    /\ Len(str) >= Len(suffix)
    /\ SubSeq(str, Len(str) - Len(suffix) + 1, Len(str)) = suffix

RECURSIVE Replace(_, _, _)
\* node.replace('.p', '.t'): every occurrence, left to right
Replace(str, old, new) ==
    IF Len(str) < Len(old) THEN str
    ELSE IF SubSeq(str, 1, Len(old)) = old
         THEN new \o Replace(SubSeq(str, Len(old) + 1, Len(str)), old, new)
         ELSE <<Head(str)>> \o Replace(Tail(str), old, new)

Reverse(seq) == [i \in 1..Len(seq) |-> seq[Len(seq) + 1 - i]]

\* random.Random(42): a generator whose stream is fixed by its seed.  The
\* stream is that of a small congruential generator in place of the
\* Mersenne Twister.
RandomSeed == 42
NextRandom(state) == (17 * state + 9) % 64
\* _randbelow(n) on the state just drawn
RandBelow(state, n) == (state \div 4) % n

RECURSIVE SampleLoop(_, _, _, _, _, _)
\* random.sample(population, k) for a small population: k draws from a pool,
\* the drawn slot refilled with the last live element
\*     j = randbelow(n - i); result[i] = pool[j]; pool[j] = pool[n - i - 1]
SampleLoop(state, pool, n, k, i, result) ==
    IF i = k THEN [state |-> state, result |-> result]
    ELSE LET drawn == NextRandom(state)
             j == RandBelow(drawn, n - i)
         IN  SampleLoop(drawn, [pool EXCEPT ![j + 1] = pool[n - i]], n, k, i + 1,
                        Append(result, pool[j + 1]))

RECURSIVE UnorderedSelections(_, _)
\* The number of k-element subsets of a population of n.
UnorderedSelections(n, k) ==
    IF k = 0 THEN 1 ELSE (n * UnorderedSelections(n - 1, k - 1)) \div k

RECURSIVE Arrangements(_, _)
\* the number of different results sample(population of n, k) can give
Arrangements(n, k) == IF k = 0 THEN 1 ELSE n * Arrangements(n - 1, k - 1)

\* Seeds of the string hash of a process (PYTHONHASHSEED, drawn at start-up
\* unless set).  The iteration order of a set of tuples of strings depends
\* on it; two of the orders are modelled: first insertion, and its reverse.
HashSeeds == {0, 1}

\* list(unique_combinations)
ListOfSet(inserted, seed) == IF seed = 0 THEN inserted ELSE Reverse(inserted)

RECURSIVE CombinationLoop(_, _, _, _, _)
\* while len(unique_combinations) < total_combinations: draw a tuple and add
\* it to the set; `inserted` lists the tuples of the set in the order they
\* first entered it
CombinationLoop(state, inserted, proteomics_nodes, num_nodes, total_combinations) ==
    IF Len(inserted) >= total_combinations THEN inserted
    ELSE LET sample == SampleLoop(state, proteomics_nodes, Len(proteomics_nodes),
                                  num_nodes, 0, <<>>)
             random_proteomics_nodes == sample.result
             random_transcriptomics_nodes ==
                 [k \in 1..Len(random_proteomics_nodes) |->
                    Replace(random_proteomics_nodes[k], <<".", "p">>, <<".", "t">>)]
             random_nodes_tuple == random_proteomics_nodes \o random_transcriptomics_nodes
             in_set == \E k \in 1..Len(inserted) : inserted[k] = random_nodes_tuple
         IN  CombinationLoop(sample.state,
                             IF in_set THEN inserted ELSE Append(inserted, random_nodes_tuple),
                             proteomics_nodes, num_nodes, total_combinations)

\* The call returns the pool, raises (sample: "Sample larger than population
\* or is negative"), or never leaves the while loop, when the set cannot
\* grow to total_combinations tuples.
generate_node_combinations(G, num_nodes, total_combinations, seed) ==
    LET IsProteomics(node) == EndsWith(node, <<".", "p">>)
        proteomics_nodes == SelectSeq(G.nodes, IsProteomics)
    IN  IF total_combinations <= 0
        THEN [exc |-> None, hangs |-> FALSE, value |-> <<>>]
        ELSE IF num_nodes < 0 \/ num_nodes > Len(proteomics_nodes)
        THEN [exc |-> "ValueError", hangs |-> FALSE, value |-> <<>>]
        ELSE IF total_combinations > Arrangements(Len(proteomics_nodes), num_nodes)
        THEN [exc |-> None, hangs |-> TRUE, value |-> <<>>]
        ELSE [exc |-> None, hangs |-> FALSE,
              value |-> ListOfSet(CombinationLoop(RandomSeed, <<>>, proteomics_nodes,
                                                  num_nodes, total_combinations),
                                  seed)]

----------------------------------------------------------------------------
(* Kernels and distances.  exp(-tL) is not computed: the kernel at a time  *)
(* is named by the dense Laplacian and the time it is computed from, and   *)
(* a distance by the two kernels it compares.                              *)

\* t_values = np.linspace(0.01, 10, 250): an increasing grid of positive
\* times, here of two points
t_values == <<1, 2>>

\* laplacian_exponential_kernel_eigendecomp(L, t): one call of
\* force_dense_eig_solver (which makes a sparse L dense and calls
\* np.linalg.eigh), then the kernel rebuilt from its eigenpairs for this t
laplacian_exponential_kernel_eigendecomp(L, t) ==
    [kernel |-> [kernel_of |-> L.m, t |-> t], eigh_calls |-> 1]

\* [laplacian_exponential_kernel_eigendecomp(L, t) for t in t_values]
KernelsOverTimes(L) ==
    [i \in 1..Len(t_values) |->
       laplacian_exponential_kernel_eigendecomp(L, t_values[i]).kernel]

\* the calls of np.linalg.eigh that building this list makes
EighCallsOverTimes(L) ==
    SumTo([i \in 1..Len(t_values) |->
             laplacian_exponential_kernel_eigendecomp(L, t_values[i]).eigh_calls],
          Len(t_values))

\* the n of a kernel list of shape (T, n, n)
KernelShape(K) == Len(K[1].kernel_of)

\* np.array(A) - np.array(B) broadcasts: the shapes (T, n, n) and (T, m, m)
\* are compatible when n = m or one of them is 1
Broadcastable(A, B) ==
    \/ KernelShape(A) = KernelShape(B)
    \/ KernelShape(A) = 1
    \/ KernelShape(B) = 1

\* np.linalg.norm(np.array(A) - np.array(B), axis=(1, 2), ord='fro')**2:
\* one squared norm per time index
FrobSquared(A, B) == [i \in 1..Len(A) |-> [frob_squared_of |-> <<A[i], B[i]>>]]

\* np.max(np.sqrt(values))
MaxSqrt(values) == [max_sqrt_of |-> values]

\* A record whose transition distance is taken against the stable baseline.
TargetRecordAgainstStableBaseline(orig_aggro, orig_nonmes, knock_aggro, knock_stable) ==
    LET gdd_values_trans == FrobSquared(orig_nonmes, knock_aggro)
        gdd_values_disrupt == FrobSquared(orig_aggro, knock_aggro)
    IN  [gdd_values_trans |-> gdd_values_trans,
         gdd_values_disrupt |-> gdd_values_disrupt,
         max_gdd_trans |-> MaxSqrt(gdd_values_trans),
         max_gdd_disrupt |-> MaxSqrt(gdd_values_disrupt)]

\* A record whose disruption distance is taken against the stable baseline.
TargetRecordAgainstStable(orig_aggro, orig_nonmes, knock_aggro, knock_stable) ==
    LET gdd_values_trans == FrobSquared(knock_stable, knock_aggro)
        gdd_values_disrupt == FrobSquared(orig_nonmes, knock_aggro)
    IN  [gdd_values_trans |-> gdd_values_trans,
         gdd_values_disrupt |-> gdd_values_disrupt,
         max_gdd_trans |-> MaxSqrt(gdd_values_trans),
         max_gdd_disrupt |-> MaxSqrt(gdd_values_disrupt)]

\* results[knockout_target][reduction] of the node and pathway sweeps
\* (orig_nonmes_kernel is a parameter of run_knockout_analysis it does not use)
TargetRecord(orig_aggro, orig_nonmes, knock_aggro, knock_stable) ==
    LET gdd_values_trans == FrobSquared(knock_stable, knock_aggro)
        gdd_values_disrupt == FrobSquared(orig_aggro, knock_aggro)
    IN  [gdd_values_trans |-> gdd_values_trans,
         gdd_values_disrupt |-> gdd_values_disrupt,
         max_gdd_trans |-> MaxSqrt(gdd_values_trans),
         max_gdd_disrupt |-> MaxSqrt(gdd_values_disrupt)]

\* results[f'random_{num_rand_nodes}_run_{run_index}'][reduction] of the
\* random sweep
RandomRecord(orig_aggro, orig_nonmes, knock_aggro, knock_stable) ==
    LET gdd_values_trans == FrobSquared(knock_stable, knock_aggro)
        gdd_values_disrupt == FrobSquared(orig_aggro, knock_aggro)
    IN  [max_gdd_trans |-> MaxSqrt(gdd_values_trans),
         max_gdd_disrupt |-> MaxSqrt(gdd_values_disrupt)]

----------------------------------------------------------------------------
(* run_knockout_analysis for 'runtype_node' and 'runtype_pathway', one     *)
(* action per iteration of the loop over red_range.                        *)

SweepIdle == [status |-> "idle"]

\* run_knockout_analysis has been entered and has not left: it is in its
\* loops, or in a loop of generate_node_combinations that does not end
SweepBusy == sweep.status \in {"running", "hung"}
NoCall == [op |-> "None"]

\* pathway_df[pathway_df['description'] == knockout_target]['genes']
\*     .str.split('|').explode().tolist()
PathwayTargetList(df, knockout_target) ==
    LET IsRow(row) == row.description = knockout_target
        rows == SelectSeq(df, IsRow)
    IN  Flatten([k \in 1..Len(rows) |-> Split(rows[k].genes, "|")])

knockdown_func(knockout_type, h, G, knockout_target, reduction) ==
    IF knockout_type = "runtype_node"
    THEN knockdown_node_both_layers(h, G, knockout_target, reduction)
    ELSE knockdown_pathway_nodes(h, G, pathway_df, knockout_target, reduction)

\* Dicts are renamed when the graph that holds them moves to a slot of the
\* state (names are not observable, sharing is): owner `from` becomes `to`.
Rename(c, from, to) == IF c[1] = from THEN <<to, c[2]>> ELSE c

RenameGraph(G, from, to) ==
    [nodes |-> G.nodes, adj |-> [e \in EdgeSet(G) |-> Rename(G.adj[e], from, to)]]

\* the heap without the dicts of owner `to`, then `from` renamed to `to`
RenameHeap(h, from, to) ==
    LET kept == {c \in DOMAIN h : c[1] # to}
    IN  [n \in {Rename(c, from, to) : c \in kept} |->
           IF n[1] = to THEN h[<<from, n[2]>>] ELSE h[n]]

\* the dicts that some graph of the set still refers to
Collect(h, graphs) ==
    [c \in DOMAIN h \cap UNION {Cells(g) : g \in graphs} |-> h[c]]

InSlot(value, from, to) ==
    IF value.kind = "None" THEN value
    ELSE [value EXCEPT !.modified_graph = RenameGraph(@, from, to)]

ReturnedGraph(r) == IF r.kind = "None" THEN NoGraph ELSE r.modified_graph

----------------------------------------------------------------------------
(* Inputs of the model *)

MaxReduction == 1   \* reduction factors are 0..MaxReduction

Base_a == <<"a">>
Base_b == <<"b">>
Base_c == <<"c">>

ap == ProteomicsName(Base_a)
bp == ProteomicsName(Base_b)
cp == ProteomicsName(Base_c)
at == TranscriptomicsName(Base_a)
bt == TranscriptomicsName(Base_b)
ct == TranscriptomicsName(Base_c)

\* a graph value from its node list and its weighted edges <<u, v, weight>>
GraphOf(node_list, edges) ==
    [nodes |-> node_list,
     w |-> [e \in {{t[1], t[2]} : t \in edges} |->
              (CHOOSE t \in edges : {t[1], t[2]} = e)[3]]]

\* Two-layer graphs as weighted_multi_omics_graph and the demo nets build
\* them: proteomics nodes first, then transcriptomics nodes, no self-loops,
\* positive weights; an entity may be missing from a layer, and a graph may
\* lack interlayer edges.
RingGraph ==
    GraphOf(<<ap, bp, at, bt>>, {<<ap, bp, 2>>, <<at, bt, 1>>, <<ap, at, 1>>, <<bp, bt, 1>>})
ProteinOnlyGraph ==
    GraphOf(<<ap, bp, cp, at>>, {<<ap, bp, 1>>, <<bp, cp, 2>>, <<ap, at, 1>>})
NoEntityAGraph ==
    GraphOf(<<bp, cp, bt, ct>>, {<<bp, cp, 1>>, <<bt, ct, 2>>, <<bp, bt, 1>>})
LayersApartGraph ==
    GraphOf(<<ap, bp, at, bt>>, {<<ap, bp, 2>>, <<at, bt, 2>>})
EdgelessGraph ==
    GraphOf(<<ap, bp, at, bt>>, {})

AggroGraphs ==
    {RingGraph, ProteinOnlyGraph, NoEntityAGraph, LayersApartGraph, EdgelessGraph}

StableGraphs_Ring ==
    GraphOf(<<ap, bp, at, bt>>, {<<ap, bp, 1>>, <<at, bt, 1>>, <<ap, at, 1>>, <<bp, bt, 1>>})
StableGraphs_ProteinOnly ==
    GraphOf(<<ap, bp, cp, at>>, {<<ap, bp, 2>>, <<ap, cp, 1>>, <<ap, at, 1>>})
StableGraphs_NoEntityA ==
    GraphOf(<<bp, cp, bt, ct>>, {<<bp, cp, 2>>, <<bp, bt, 1>>, <<cp, ct, 1>>})

StableGraphs == {StableGraphs_Ring, StableGraphs_ProteinOnly, StableGraphs_NoEntityA}

\* graphs of three entities, each in both layers
ThreeEntityGraph ==
    GraphOf(<<ap, bp, cp, at, bt, ct>>,
            {<<ap, bp, 2>>, <<bp, cp, 1>>, <<at, bt, 1>>,
             <<ap, at, 1>>, <<bp, bt, 1>>, <<cp, ct, 1>>})
StableGraphs_ThreeEntities ==
    GraphOf(<<ap, bp, cp, at, bt, ct>>,
            {<<ap, bp, 1>>, <<bp, cp, 1>>, <<bt, ct, 1>>,
             <<ap, at, 1>>, <<bp, bt, 1>>, <<cp, ct, 1>>})

\* a stable graph with one node fewer than the aggressive graphs have
StableGraphs_ThreeNodes ==
    GraphOf(<<ap, bp, at>>, {<<ap, bp, 1>>, <<ap, at, 1>>})

Digits == <<"0", "1", "2", "3", "4", "5", "6", "7", "8", "9">>

RECURSIVE Str(_)
\* str(i), as an f-string formats an int i >= 0: its decimal digits
Str(i) ==
    IF i < 10 THEN <<Digits[i + 1]>>
    ELSE Str(i \div 10) \o <<Digits[(i % 10) + 1]>>

\* A demo net whose intra-layer edges weigh 2.
double5_demonet_heavy_layers(inter_layer_weight) ==
    LET nodes_A == [i \in 1..5 |-> Str(i) \o <<".", "p">>]
        nodes_B == [i \in 1..5 |-> Str(i) \o <<".", "t">>]
        interlayer == {{nodes_A[i], nodes_B[i]} : i \in 1..5}
        edges == {{nodes_A[i], nodes_A[((i + 3) % 5) + 1]} : i \in 1..5}
                 \cup {{nodes_B[i], nodes_B[((i + 3) % 5) + 1]} : i \in 1..5}
                 \cup interlayer
    IN  [nodes |-> nodes_A \o nodes_B,
         w |-> [e \in edges |-> IF e \in interlayer THEN inter_layer_weight ELSE 2]]

\* double5_demonet: two rings of five nodes, an interlayer edge between the
\* two nodes of each entity, and the two manual edges; weight 1.0 on every
\* edge but the interlayer ones
double5_demonet(inter_layer_weight) ==
    LET nodes_A == [i \in 1..5 |-> Str(i) \o <<".", "p">>]
        nodes_B == [i \in 1..5 |-> Str(i) \o <<".", "t">>]
        \* zero-based i is joined to (i - 1) % 5
        ring(nodes) == {{nodes[i], nodes[((i + 3) % 5) + 1]} : i \in 1..5}
        interlayer == {{nodes_A[i], nodes_B[i]} : i \in 1..5}
        manual == {{<<"1", ".", "t">>, <<"3", ".", "t">>},
                   {<<"1", ".", "p">>, <<"4", ".", "p">>}}
        edges == ring(nodes_A) \cup ring(nodes_B) \cup interlayer \cup manual
    IN  [nodes |-> nodes_A \o nodes_B,
         w |-> [e \in edges |-> IF e \in interlayer THEN inter_layer_weight ELSE 1]]

\* interlayer weights of the stable demo graph
DemoInterLayerWeights == {1, 2}
DemoBases == {Str(i) : i \in 1..5}

\* Pathway tables: description is a unique key, genes a pipe-delimited list.
PathwayTables ==
    { << [description |-> "P1", genes |-> <<"a", "|", "b">>],
         [description |-> "P2", genes |-> <<"c">>] >> }

Reductions == 0..MaxReduction
TargetBases == {Base_a, Base_c}
TargetPathways == {"P1", "P2", "P3"}
TargetNodes == {ap, ct}
TargetNodeLists == {<<ap, bt>>, <<ap, at>>, <<bp, cp, ct>>, <<cp, ap, cp>>}
\* np.linspace(lo, hi, n) for n <= 2
RedRanges == SeqUpTo(Reductions, 2)
MaxPool == 3        \* largest args.permu_runs of the random sweeps
\* num_rand_nodes, as the driver takes it from range(*path_size_range)
RandomSizes == {1, 2, 3}
\* run_idx as distribute_runs gives it to a rank
RunIndexLists ==
    {distribute_runs(permu_runs, p[1], p[2]) : p \in {<<0, 1>>, <<0, 2>>, <<1, 2>>}}

\* the kernels of a graph as first built (the script computes them once)
OrigKernel(value) ==
    LET g == NewGraph(NoEdges, value)
    IN  KernelsOverTimes(Dense(weighted_laplacian_matrix(g.heap, g.graph)))

----------------------------------------------------------------------------
(* States and actions *)

PartIdle ==
    /\ nodes_to_investigate_bases = <<>>
    /\ pathways = <<>>
    /\ permu_runs = 0
    /\ size = 1
    /\ rank_pc = [r \in {0} |-> "done"]
    /\ pathways_subset = [r \in {0} |-> <<>>]
    /\ nodes_subset = [r \in {0} |-> <<>>]
    /\ run_indices = [r \in {0} |-> <<>>]
    /\ DriverIdle({0})

KnockIdle ==
    /\ heap = NoEdges
    /\ G_aggro = NoGraph
    /\ G_stable = NoGraph
    /\ loaded = [aggro |-> GraphOf(<<>>, {}), stable |-> GraphOf(<<>>, {})]
    /\ pathway_df = <<>>
    /\ ret = NoReturn
    /\ held = NoGraph
    /\ exc = None
    /\ last_call = NoCall
    /\ orig_aggro_kernel = KernelsOverTimes(Dense(<<>>))
    /\ orig_non_mesench_kernel = KernelsOverTimes(Dense(<<>>))
    /\ sweep = SweepIdle

\* The two graphs are built, their baseline kernels computed and the pathway
\* table read; both graphs have the same number of nodes.
KnockInitOn(aggro_graphs, stable_graphs) ==
    \E va \in aggro_graphs, vs \in stable_graphs, df \in PathwayTables :
        LET a == NewGraph(NoEdges, va)
            b == NewGraph(RenameHeap(a.heap, "new", SlotAggro), vs)
        IN  /\ heap = RenameHeap(b.heap, "new", SlotStable)
            /\ G_aggro = RenameGraph(a.graph, "new", SlotAggro)
            /\ G_stable = RenameGraph(b.graph, "new", SlotStable)
            /\ loaded = [aggro |-> va, stable |-> vs]
            /\ pathway_df = df
            /\ ret = NoReturn
            /\ held = NoGraph
            /\ exc = None
            /\ last_call = NoCall
            /\ orig_aggro_kernel = OrigKernel(va)
            /\ orig_non_mesench_kernel = OrigKernel(vs)
            /\ sweep = SweepIdle

Baseline(which) == IF which = "aggro" THEN G_aggro ELSE G_stable

\* A caller takes the outcome of one operator call: the returned tuple
\* replaces the one it had; an exception leaves it.
DirectCall(c, out) ==
    /\ ~SweepBusy
    /\ last_call' = c
    /\ exc' = out.exc
    /\ IF out.exc = None
       THEN /\ ret' = InSlot(out.value, "new", SlotRet)
            /\ heap' = Collect(RenameHeap(out.heap, "new", SlotRet),
                               {G_aggro, G_stable, held, ReturnedGraph(ret')})
       ELSE /\ ret' = ret
            /\ heap' = Collect(out.heap, {G_aggro, G_stable, held, ReturnedGraph(ret)})
    /\ sweep' = SweepIdle
    /\ UNCHANGED <<G_aggro, G_stable, loaded, pathway_df, held,
                   orig_aggro_kernel, orig_non_mesench_kernel, part_vars>>

CallKnockoutNode(G, which, node) ==
    DirectCall([op |-> "knockout_node", which |-> which, target |-> node,
                reduced_weight |-> 0],
               knockout_node(heap, G, node))

CallKnockdownNodeBothLayers(G, which, base, reduced_weight) ==
    DirectCall([op |-> "knockdown_node_both_layers", which |-> which, target |-> base,
                reduced_weight |-> reduced_weight],
               knockdown_node_both_layers(heap, G, base, reduced_weight))

CallKnockdownPathwayNodes(G, which, description, reduced_weight) ==
    DirectCall([op |-> "knockdown_pathway_nodes", which |-> which, target |-> description,
                reduced_weight |-> reduced_weight],
               knockdown_pathway_nodes(heap, G, pathway_df, description, reduced_weight))

CallKnockdownRandomNodes(G, which, node_list, reduced_weight) ==
    DirectCall([op |-> "knockdown_random_nodes", which |-> which, target |-> node_list,
                reduced_weight |-> reduced_weight],
               knockdown_random_nodes(heap, G, node_list, reduced_weight))

\* The caller binds the graph it was returned to a variable of its own and
\* lets go of the rest of the tuple.
Keep ==
    /\ ~SweepBusy
    /\ exc = None
    /\ ret.kind # "None"
    /\ held' = RenameGraph(ret.modified_graph, SlotRet, SlotHeld)
    /\ heap' = Collect(RenameHeap(heap, SlotRet, SlotHeld), {G_aggro, G_stable, held'})
    /\ ret' = NoReturn
    /\ last_call' = NoCall
    /\ UNCHANGED <<G_aggro, G_stable, loaded, pathway_df, exc, sweep,
                   orig_aggro_kernel, orig_non_mesench_kernel, part_vars>>

\* An operator applied to the graph the previous call returned.
ChainedCall(op) == [op |-> op, which |-> "ret", target |-> <<>>, reduced_weight |-> 0]

ChainKnockoutNode(node) ==
    /\ ret.kind # "None"
    /\ DirectCall(ChainedCall("knockout_node"),
                  knockout_node(heap, ret.modified_graph, node))

ChainKnockdownNodeBothLayers(base, reduced_weight) ==
    /\ ret.kind # "None"
    /\ DirectCall(ChainedCall("knockdown_node_both_layers"),
                  knockdown_node_both_layers(heap, ret.modified_graph, base, reduced_weight))

ChainKnockdownPathwayNodes(description, reduced_weight) ==
    /\ ret.kind # "None"
    /\ DirectCall(ChainedCall("knockdown_pathway_nodes"),
                  knockdown_pathway_nodes(heap, ret.modified_graph, pathway_df,
                                          description, reduced_weight))

ChainKnockdownRandomNodes(node_list, reduced_weight) ==
    /\ ret.kind # "None"
    /\ DirectCall(ChainedCall("knockdown_random_nodes"),
                  knockdown_random_nodes(heap, ret.modified_graph, node_list, reduced_weight))

\* run_knockout_analysis is entered: results = {}, the pathway's gene count,
\* results[knockout_target] = {}.
SweepStart(knockout_type, knockout_target, red_range) ==
    /\ ~SweepBusy
    /\ sweep' = [status |-> "running",
                 knockout_type |-> knockout_type,
                 knockout_target |-> knockout_target,
                 red_range |-> red_range,
                 red_idx |-> 1,
                 num_genes |-> IF knockout_type = "runtype_pathway"
                               THEN Len(PathwayTargetList(pathway_df, knockout_target))
                               ELSE 0,
                 results |-> (knockout_target :> NoEdges),
                 eigh_calls |-> 0,
                 knockdown_aggro |-> NoReturn,
                 knockdown_stable |-> NoReturn]
    /\ ret' = NoReturn
    /\ held' = NoGraph
    /\ exc' = None
    /\ last_call' = NoCall
    /\ heap' = Collect(heap, {G_aggro, G_stable})
    /\ UNCHANGED <<G_aggro, G_stable, loaded, pathway_df,
                   orig_aggro_kernel, orig_non_mesench_kernel, part_vars>>

\* the sweep ends with an exception: its locals are gone
\* An exception caught and dropped: the loop goes on to the next reduction.
SweepRaisedSwallowed(h, e) ==
    /\ sweep' = [sweep EXCEPT !.red_idx = sweep.red_idx + 1,
                              !.knockdown_aggro = NoReturn,
                              !.knockdown_stable = NoReturn]
    /\ exc' = None
    /\ heap' = Collect(h, {G_aggro, G_stable})

\* An exception leaves run_knockout_analysis: nothing in the node and pathway
\* branch catches it, and the handler of the random branch ends in `raise e`.
SweepRaised(h, e) ==
    /\ sweep' = [sweep EXCEPT !.status = "raised",
                              !.knockdown_aggro = NoReturn,
                              !.knockdown_stable = NoReturn]
    /\ exc' = e
    /\ heap' = Collect(h, {G_aggro, G_stable})

\* One iteration of `for reduction in red_range`.
SweepIteration ==
    /\ sweep.status = "running"
    /\ sweep.knockout_type # "runtype_random"
    /\ sweep.red_idx <= Len(sweep.red_range)
    /\ LET reduction == sweep.red_range[sweep.red_idx]
           a == knockdown_func(sweep.knockout_type, heap, G_aggro,
                               sweep.knockout_target, reduction)
           \* knockdown_graph_aggro is bound before the second call
           heap_a == RenameHeap(a.heap, "new", SlotSweepAggro)
           s == knockdown_func(sweep.knockout_type, heap_a, G_stable,
                               sweep.knockout_target, reduction)
           diff_kernel_knock_aggro == KernelsOverTimes(a.value.new_laplacian)
           diff_kernel_knock_stable == KernelsOverTimes(s.value.new_laplacian)
           record == TargetRecord(orig_aggro_kernel, orig_non_mesench_kernel,
                                  diff_kernel_knock_aggro, diff_kernel_knock_stable)
           target == sweep.knockout_target
       IN  IF a.exc # None THEN SweepRaised(a.heap, a.exc)
           ELSE IF s.exc # None THEN SweepRaised(s.heap, s.exc)
           ELSE IF ~Broadcastable(diff_kernel_knock_stable, diff_kernel_knock_aggro)
                   \/ ~Broadcastable(orig_aggro_kernel, diff_kernel_knock_aggro)
                THEN SweepRaised(s.heap, "ValueError")
           ELSE LET new_aggro == InSlot(a.value, "new", SlotSweepAggro)
                    new_stable == InSlot(s.value, "new", SlotSweepStable)
                IN  /\ sweep' = [sweep EXCEPT
                                   !.results = (target :> ((reduction :> record)
                                                           @@ sweep.results[target])),
                                   !.red_idx = sweep.red_idx + 1,
                                   !.eigh_calls =
                                       EighCallsOverTimes(a.value.new_laplacian)
                                       + EighCallsOverTimes(s.value.new_laplacian),
                                   !.knockdown_aggro = new_aggro,
                                   !.knockdown_stable = new_stable]
                    /\ exc' = None
                    /\ heap' = Collect(RenameHeap(s.heap, "new", SlotSweepStable),
                                       {G_aggro, G_stable, new_aggro.modified_graph,
                                        new_stable.modified_graph})
    /\ UNCHANGED <<G_aggro, G_stable, loaded, pathway_df, ret, held, last_call,
                   orig_aggro_kernel, orig_non_mesench_kernel, part_vars>>

\* A key that leaves the run index out.
RandomKeyWithoutRun(num_rand_nodes, run_index) ==
    <<"r", "a", "n", "d", "o", "m", "_">> \o Str(num_rand_nodes)

\* A key that leaves the number of nodes out.
RandomKeyWithoutSize(num_rand_nodes, run_index) ==
    <<"r", "a", "n", "d", "o", "m", "_", "r", "u", "n", "_">> \o Str(run_index)

\* f'random_{num_rand_nodes}_run_{run_index}'
RandomKey(num_rand_nodes, run_index) ==
    <<"r", "a", "n", "d", "o", "m", "_">> \o Str(num_rand_nodes)
    \o <<"_", "r", "u", "n", "_">> \o Str(run_index)

\* run_knockout_analysis is entered with 'runtype_random': results = {} and
\* the pool of combinations is generated (total_combinations=args.permu_runs).
RandomSweepStart(num_rand_nodes, run_idx, red_range) ==
    /\ ~SweepBusy
    /\ LET pool == generate_node_combinations(G_aggro, num_rand_nodes, permu_runs,
                                              hash_seed[0])
       IN  /\ sweep' = [status |-> IF pool.hangs THEN "hung"
                                   ELSE IF pool.exc # None THEN "raised"
                                   ELSE "running",
                        knockout_type |-> "runtype_random",
                        knockout_target |-> num_rand_nodes,
                        red_range |-> red_range,
                        red_idx |-> Len(red_range) + 1,
                        run_idx |-> run_idx,
                        run_pos |-> 0,
                        unique_node_combinations |-> pool.value,
                        node_list |-> <<>>,
                        num_genes |-> 0,
                        results |-> NoEdges,
                        eigh_calls |-> 0,
                        knockdown_aggro |-> NoReturn,
                        knockdown_stable |-> NoReturn]
           /\ exc' = pool.exc
    /\ ret' = NoReturn
    /\ held' = NoGraph
    /\ last_call' = NoCall
    /\ heap' = Collect(heap, {G_aggro, G_stable})
    /\ UNCHANGED <<G_aggro, G_stable, loaded, pathway_df,
                   orig_aggro_kernel, orig_non_mesench_kernel, part_vars>>

\* One iteration of `for run_index in run_idx` up to its inner loop:
\* node_list = unique_node_combinations[run_index]; results[key] = {}.
RandomSweepRun ==
    /\ sweep.status = "running"
    /\ sweep.knockout_type = "runtype_random"
    /\ sweep.red_idx > Len(sweep.red_range)
    /\ sweep.run_pos < Len(sweep.run_idx)
    /\ LET run_index == sweep.run_idx[sweep.run_pos + 1]
           key == RandomKey(sweep.knockout_target, run_index)
       IN  IF run_index >= Len(sweep.unique_node_combinations)
           THEN SweepRaised(heap, "IndexError")
           ELSE /\ sweep' = [sweep EXCEPT
                               !.run_pos = sweep.run_pos + 1,
                               !.node_list = sweep.unique_node_combinations[run_index + 1],
                               !.results = (key :> NoEdges) @@ sweep.results,
                               !.red_idx = 1]
                /\ UNCHANGED <<exc, heap>>
    /\ UNCHANGED <<G_aggro, G_stable, loaded, pathway_df, ret, held, last_call,
                   orig_aggro_kernel, orig_non_mesench_kernel, part_vars>>

\* One iteration of `for reduction in red_range` of the random sweep.
RandomSweepIteration ==
    /\ sweep.status = "running"
    /\ sweep.knockout_type = "runtype_random"
    /\ sweep.red_idx <= Len(sweep.red_range)
    /\ LET reduction == sweep.red_range[sweep.red_idx]
           a == knockdown_random_nodes(heap, G_aggro, sweep.node_list, reduction)
           heap_a == RenameHeap(a.heap, "new", SlotSweepAggro)
           s == knockdown_random_nodes(heap_a, G_stable, sweep.node_list, reduction)
           diff_kernel_knock_aggro == KernelsOverTimes(a.value.new_laplacian)
           diff_kernel_knock_stable == KernelsOverTimes(s.value.new_laplacian)
           record == RandomRecord(orig_aggro_kernel, orig_non_mesench_kernel,
                                  diff_kernel_knock_aggro, diff_kernel_knock_stable)
           key == RandomKey(sweep.knockout_target, sweep.run_idx[sweep.run_pos])
       IN  IF a.exc # None THEN SweepRaised(a.heap, a.exc)
           ELSE IF s.exc # None THEN SweepRaised(s.heap, s.exc)
           ELSE IF ~Broadcastable(diff_kernel_knock_stable, diff_kernel_knock_aggro)
                   \/ ~Broadcastable(orig_aggro_kernel, diff_kernel_knock_aggro)
                THEN SweepRaised(s.heap, "ValueError")
           \* try: results[key][reduction] = {...}
           \* except KeyError as e: print(...); raise e
           ELSE IF key \notin DOMAIN sweep.results
                THEN SweepRaised(s.heap, "KeyError")
           ELSE LET new_aggro == InSlot(a.value, "new", SlotSweepAggro)
                    new_stable == InSlot(s.value, "new", SlotSweepStable)
                IN  /\ sweep' = [sweep EXCEPT
                                   !.results = (key :> ((reduction :> record)
                                                        @@ sweep.results[key]))
                                               @@ sweep.results,
                                   !.red_idx = sweep.red_idx + 1,
                                   !.eigh_calls =
                                       EighCallsOverTimes(a.value.new_laplacian)
                                       + EighCallsOverTimes(s.value.new_laplacian),
                                   !.knockdown_aggro = new_aggro,
                                   !.knockdown_stable = new_stable]
                    /\ exc' = None
                    /\ heap' = Collect(RenameHeap(s.heap, "new", SlotSweepStable),
                                       {G_aggro, G_stable, new_aggro.modified_graph,
                                        new_stable.modified_graph})
    /\ UNCHANGED <<G_aggro, G_stable, loaded, pathway_df, ret, held, last_call,
                   orig_aggro_kernel, orig_non_mesench_kernel, part_vars>>

\* `return results`
SweepReturn ==
    /\ sweep.status = "running"
    /\ sweep.red_idx > Len(sweep.red_range)
    /\ sweep.knockout_type = "runtype_random" => sweep.run_pos = Len(sweep.run_idx)
    /\ sweep' = [sweep EXCEPT !.status = "returned",
                              !.knockdown_aggro = NoReturn,
                              !.knockdown_stable = NoReturn]
    /\ heap' = Collect(heap, {G_aggro, G_stable})
    /\ UNCHANGED <<G_aggro, G_stable, loaded, pathway_df, ret, held, exc, last_call,
                   orig_aggro_kernel, orig_non_mesench_kernel, part_vars>>

----------------------------------------------------------------------------
(* The sweep driver of a rank, the gather and the merge *)

\* sorted(degree_dict, key=lambda x: degree_dict[x], reverse=reverse): a
\* stable sort of the nodes by their number of neighbours
SortedByDegree(G, reverse) ==
    LET n == Len(G.nodes)
        degree(i) == Cardinality(Neighbors(G, G.nodes[i]))
        Before(j, i) ==
            \/ IF reverse THEN degree(j) > degree(i) ELSE degree(j) < degree(i)
            \/ degree(j) = degree(i) /\ j < i
        position(i) == Cardinality({j \in 1..n : Before(j, i)}) + 1
    IN  [p \in 1..n |-> G.nodes[CHOOSE i \in 1..n : position(i) = p]]

\* nodes_to_investigate_bases as the script builds it from the aggressive graph
NodesToInvestigateBases(G, a) ==
    LET hub_nodes == PySlice(SortedByDegree(G, TRUE), 0, a.koh)
        low_nodes == PySlice(SortedByDegree(G, FALSE), 0, a.kob)
        from == IF a.koh = 0 THEN G.nodes ELSE hub_nodes \o low_nodes
    IN  [i \in 1..Len(from) |-> Split(from[i], ".")[1]]

\* What the driver gets from the node or pathway sweeps of its targets, one
\* after the other: local_target_results.update(results) after each sweep
\* that returns; the first exception ends the process. A record stands for
\* the distances of its knockdown and is named by what was knocked down.
RECURSIVE TargetSweeps(_, _, _)
TargetSweeps(knockout_type, targets, results) ==
    IF targets = <<>> THEN [exc |-> None, value |-> results]
    ELSE LET target == Head(targets)
             a == knockdown_func(knockout_type, heap, G_aggro, target, 0)
             b == knockdown_func(knockout_type, heap, G_stable, target, 0)
         IN  IF a.exc # None THEN [exc |-> a.exc, value |-> results]
             ELSE IF b.exc # None THEN [exc |-> b.exc, value |-> results]
             ELSE TargetSweeps(knockout_type, Tail(targets),
                               (target :> [knocked |-> target]) @@ results)

\* The random sweeps of the sizes in range(*path_size_range), each on the
\* pool generated in this process: local_rand_results.update(rand_results).
RECURSIVE RandomSweeps(_, _, _, _)
RandomSweeps(pathway_sizes, run_idx, seed, results) ==
    IF pathway_sizes = <<>> THEN [exc |-> None, hangs |-> FALSE, value |-> results]
    ELSE LET random_pathway_size == Head(pathway_sizes)
             pool == generate_node_combinations(G_aggro, random_pathway_size,
                                                permu_runs, seed)
             KeyOf(i) == RandomKey(random_pathway_size, run_idx[i])
             \* a later run under the same key replaces the earlier one
             rand_results ==
                 [k \in {KeyOf(i) : i \in 1..Len(run_idx)} |->
                    LET last == CHOOSE i \in 1..Len(run_idx) :
                                    /\ KeyOf(i) = k
                                    /\ \A j \in 1..Len(run_idx) : KeyOf(j) = k => j <= i
                    IN  [knocked |-> pool.value[run_idx[last] + 1]]]
         IN  IF pool.hangs \/ pool.exc # None
             THEN [exc |-> pool.exc, hangs |-> pool.hangs, value |-> results]
             ELSE RandomSweeps(Tail(pathway_sizes), run_idx, seed,
                               rand_results @@ results)

\* A rank runs its sweeps (the body of `if args.pathway: ... else: ...`).
RankSweep(rank) ==
    /\ rank_pc[rank] = "done"
    /\ LET knockout_type == IF args.pathway THEN "runtype_pathway" ELSE "runtype_node"
           targets == IF args.pathway THEN pathways_subset[rank] ELSE nodes_subset[rank]
           t == TargetSweeps(knockout_type, targets, NoEdges)
           pathway_sizes == PyRange(args.path_size_range[1], args.path_size_range[2])
           rnd == IF args.pathway /\ permu_runs # 0 /\ t.exc = None
                  THEN RandomSweeps(pathway_sizes, run_indices[rank], hash_seed[rank],
                                    NoEdges)
                  ELSE [exc |-> None, hangs |-> FALSE, value |-> None]
       IN  /\ local_target_results' = [local_target_results EXCEPT ![rank] = t.value]
           /\ local_rand_results' = [local_rand_results EXCEPT ![rank] = rnd.value]
           /\ rank_pc' = [rank_pc EXCEPT ![rank] =
                            IF t.exc # None \/ rnd.exc # None THEN "raised"
                            ELSE IF rnd.hangs THEN "hung"
                            ELSE "swept"]
    /\ UNCHANGED <<nodes_to_investigate_bases, pathways, permu_runs, size,
                   pathways_subset, nodes_subset, run_indices,
                   args, hash_seed, combined_results, knock_vars>>

RECURSIVE MergeUpTo(_, _)
\* for process_results in all_results: for key, value in
\* process_results.items(): combined_results[key] = value
MergeUpTo(all_results, n) ==
    IF n = 0 THEN NoEdges
    ELSE all_results[n - 1] @@ MergeUpTo(all_results, n - 1)

\* comm.gather returns when every rank has reached it; rank 0 then merges
\* each gathered list into a combined_results of its own and saves it.
GatherAndMerge ==
    /\ \A r \in Ranks : rank_pc[r] = "swept"
    /\ combined_results = NoCombined
    /\ combined_results' =
         [kind |-> "saved",
          target |-> MergeUpTo(local_target_results, size),
          random |-> IF args.pathway /\ permu_runs # 0
                     THEN MergeUpTo(local_rand_results, size)
                     ELSE None]
    /\ UNCHANGED <<nodes_to_investigate_bases, pathways, permu_runs, size, rank_pc,
                   pathways_subset, nodes_subset, run_indices,
                   args, hash_seed, local_target_results, local_rand_results,
                   knock_vars>>

KnockInit == KnockInitOn(AggroGraphs, StableGraphs)

Init == KnockInit /\ PartIdle

Next ==
    \/ \E which \in {"aggro", "stable"}, node \in TargetNodes :
           CallKnockoutNode(Baseline(which), which, node)
    \/ \E which \in {"aggro", "stable"}, base \in TargetBases, r \in Reductions :
           CallKnockdownNodeBothLayers(Baseline(which), which, base, r)
    \/ \E which \in {"aggro", "stable"}, d \in TargetPathways, r \in Reductions :
           CallKnockdownPathwayNodes(Baseline(which), which, d, r)
    \/ \E which \in {"aggro", "stable"}, nl \in TargetNodeLists, r \in Reductions :
           CallKnockdownRandomNodes(Baseline(which), which, nl, r)
    \/ \E base \in TargetBases, rr \in RedRanges :
           SweepStart("runtype_node", base, rr)
    \/ \E d \in TargetPathways, rr \in RedRanges :
           SweepStart("runtype_pathway", d, rr)
    \/ SweepIteration
    \/ SweepReturn

Spec == Init /\ [][Next]_vars

\* A caller that keeps returned graphs, on one of the baseline pairs.
CallerInit == KnockInitOn({RingGraph}, {StableGraphs_NoEntityA}) /\ PartIdle

CallerNext == Next \/ Keep

CallerSpec == CallerInit /\ [][CallerNext]_vars

\* Sequences of operators, each applied to the graph the one before returned,
\* on one of the baseline pairs.
ChainInit == KnockInitOn({ProteinOnlyGraph}, {StableGraphs_Ring}) /\ PartIdle

ChainNext ==
    \/ Next
    \/ \E node \in TargetNodes : ChainKnockoutNode(node)
    \/ \E base \in TargetBases, r \in Reductions : ChainKnockdownNodeBothLayers(base, r)
    \/ \E d \in TargetPathways, r \in Reductions : ChainKnockdownPathwayNodes(d, r)
    \/ \E nl \in TargetNodeLists, r \in Reductions : ChainKnockdownRandomNodes(nl, r)

ChainSpec == ChainInit /\ [][ChainNext]_vars

\* Sweeps of the three knockout types on baseline pairs with the same and with
\* different node counts; args.permu_runs and the hash seed of the process vary.
SweepInit ==
    /\ KnockInitOn({RingGraph}, {StableGraphs_Ring, StableGraphs_ThreeNodes})
    /\ nodes_to_investigate_bases = <<>>
    /\ pathways = <<>>
    /\ permu_runs \in 0..MaxPool
    /\ size = 1
    /\ rank_pc = [r \in {0} |-> "done"]
    /\ pathways_subset = [r \in {0} |-> <<>>]
    /\ nodes_subset = [r \in {0} |-> <<>>]
    /\ run_indices = [r \in {0} |-> <<>>]
    /\ args = [koh |-> 0, kob |-> 0, pathway |-> FALSE, path_size_range |-> <<0, 0>>]
    /\ hash_seed \in [{0} -> HashSeeds]
    /\ local_target_results = [r \in {0} |-> None]
    /\ local_rand_results = [r \in {0} |-> None]
    /\ combined_results = NoCombined

SweepNext ==
    \/ \E base \in TargetBases, rr \in RedRanges :
           SweepStart("runtype_node", base, rr)
    \/ \E d \in TargetPathways, rr \in RedRanges :
           SweepStart("runtype_pathway", d, rr)
    \/ \E num \in RandomSizes, run_idx \in RunIndexLists, rr \in RedRanges :
           RandomSweepStart(num, run_idx, rr)
    \/ SweepIteration
    \/ RandomSweepRun
    \/ RandomSweepIteration
    \/ SweepReturn

SweepSpec == SweepInit /\ [][SweepNext]_vars

\* Node knockdowns and node sweeps on the double5 demo graph.
DemoInit ==
    /\ KnockInitOn({double5_demonet(1)},
                   {double5_demonet(w) : w \in DemoInterLayerWeights})
    /\ PartIdle

DemoNext ==
    \/ \E which \in {"aggro", "stable"}, base \in DemoBases, r \in Reductions :
           CallKnockdownNodeBothLayers(Baseline(which), which, base, r)
    \/ \E base \in DemoBases, rr \in RedRanges :
           SweepStart("runtype_node", base, rr)
    \/ SweepIteration
    \/ SweepReturn

DemoSpec == DemoInit /\ [][DemoNext]_vars

\* A run of the script under SLURM on `size` processes: the work lists are
\* built from the aggressive graph and the arguments, each process has its
\* own hash seed, and the pathway list has no repeats.
DriverArgs ==
    {[koh |-> 0, kob |-> 0, pathway |-> FALSE, path_size_range |-> <<1, 3>>],
     [koh |-> 1, kob |-> 1, pathway |-> FALSE, path_size_range |-> <<1, 3>>],
     [koh |-> 1, kob |-> 1, pathway |-> TRUE, path_size_range |-> <<1, 3>>]}

DriverInit ==
    /\ KnockInitOn({ThreeEntityGraph}, {StableGraphs_ThreeEntities})
    /\ args \in DriverArgs
    /\ nodes_to_investigate_bases = NodesToInvestigateBases(G_aggro, args)
    /\ pathways = IF args.pathway THEN SubSeq(AllPathways, 1, MaxPathways) ELSE <<>>
    /\ permu_runs \in IF args.pathway THEN {0, MaxPool} ELSE {0}
    /\ size \in 1..MaxSize
    /\ rank_pc = [r \in 0..(size - 1) |-> "pathways"]
    /\ pathways_subset = [r \in 0..(size - 1) |-> None]
    /\ nodes_subset = [r \in 0..(size - 1) |-> None]
    /\ run_indices = [r \in 0..(size - 1) |-> None]
    /\ hash_seed \in [0..(size - 1) -> HashSeeds]
    /\ local_target_results = [r \in 0..(size - 1) |-> None]
    /\ local_rand_results = [r \in 0..(size - 1) |-> None]
    /\ combined_results = NoCombined

DriverNext ==
    \/ PartNext
    \/ \E rank \in Ranks : RankSweep(rank)
    \/ GatherAndMerge

DriverSpec == DriverInit /\ [][DriverNext]_vars

PartitionInit == PartInit /\ KnockIdle

PartitionSpec == PartitionInit /\ [][PartNext]_vars

----------------------------------------------------------------------------
(* Properties of the partitioner *)

PathwaysDistributed == \A r \in Ranks : rank_pc[r] # "pathways"
NodesDistributed == \A r \in Ranks : rank_pc[r] \in {"runs", "done"}
RunsDistributed == \A r \in Ranks : rank_pc[r] = "done"

\* C1: for a fixed number of ranks, the slices of ranks 0..size-1 put one
\* after the other in increasing rank are the original list exactly (every
\* item once, no gap, no overlap, order kept), for distribute_nodes, for
\* distribute_pathways, and for the index ranges of distribute_runs against
\* range(permu_runs).
C1_SlicesReconstruct ==
    /\ NodesDistributed => Concat(nodes_subset, size) = nodes_to_investigate_bases
    /\ PathwaysDistributed => Concat(pathways_subset, size) = pathways
    /\ RunsDistributed => Concat(run_indices, size) = PyRange(0, permu_runs)

C1_Witness ==
    /\ RunsDistributed
    /\ size = 2
    /\ Len(nodes_to_investigate_bases) = 3
    /\ Len(pathways) = 3
    /\ permu_runs = 3

\* C2: distribute_nodes and distribute_pathways give every rank below
\* (N mod size) exactly floor(N/size)+1 items and every other rank exactly
\* floor(N/size) items, so the slice sizes of two ranks differ by at most 1;
\* a rank gets the empty slice when there are more ranks than items.
ExpectedLen(n, r) == (n \div size) + (IF r < n % size THEN 1 ELSE 0)

C2_SliceSizes ==
    /\ \A r \in Ranks :
         /\ rank_pc[r] \in {"runs", "done"} =>
              Len(nodes_subset[r]) = ExpectedLen(Len(nodes_to_investigate_bases), r)
         /\ rank_pc[r] # "pathways" =>
              Len(pathways_subset[r]) = ExpectedLen(Len(pathways), r)
    /\ \A r1, r2 \in Ranks :
         /\ (rank_pc[r1] \in {"runs", "done"} /\ rank_pc[r2] \in {"runs", "done"}) =>
              Len(nodes_subset[r1]) - Len(nodes_subset[r2]) \in -1..1
         /\ (rank_pc[r1] # "pathways" /\ rank_pc[r2] # "pathways") =>
              Len(pathways_subset[r1]) - Len(pathways_subset[r2]) \in -1..1

C2_Witness ==
    /\ NodesDistributed
    /\ size = 3
    /\ Len(nodes_to_investigate_bases) = 2
    /\ Len(pathways) = 1
    /\ nodes_subset[2] = <<>>
    /\ Len(nodes_subset[0]) = 1
    /\ pathways_subset[1] = <<>>

----------------------------------------------------------------------------
(* Properties of the perturbation operators and of the sweep *)

\* The operator calls whose returned tuple the state still holds, each with
\* the baseline it was given as first loaded: the caller's last call on a
\* baseline, and the two calls of the sweep iteration just finished.
DirectReturned ==
    /\ last_call.op # "None"
    /\ last_call.which \in {"aggro", "stable"}
    /\ exc = None

SweepIterated ==
    /\ sweep.status = "running"
    /\ sweep.red_idx > 1
    /\ sweep.knockdown_aggro # NoReturn

SweepOp ==
    IF sweep.knockout_type = "runtype_node" THEN "knockdown_node_both_layers"
    ELSE IF sweep.knockout_type = "runtype_pathway" THEN "knockdown_pathway_nodes"
    ELSE "knockdown_random_nodes"

SweepTarget ==
    IF sweep.knockout_type = "runtype_random" THEN sweep.node_list
    ELSE sweep.knockout_target

Observed ==
    (IF DirectReturned
     THEN << [op |-> last_call.op, G |-> Baseline(last_call.which),
              G0 |-> loaded[last_call.which], target |-> last_call.target,
              reduced_weight |-> last_call.reduced_weight, out |-> ret] >>
     ELSE <<>>)
    \o
    (IF SweepIterated
     THEN LET r == sweep.red_range[sweep.red_idx - 1]
          IN  << [op |-> SweepOp, G |-> G_aggro, G0 |-> loaded.aggro,
                  target |-> SweepTarget, reduced_weight |-> r,
                  out |-> sweep.knockdown_aggro],
                 [op |-> SweepOp, G |-> G_stable, G0 |-> loaded.stable,
                  target |-> SweepTarget, reduced_weight |-> r,
                  out |-> sweep.knockdown_stable] >>
     ELSE <<>>)

\* the returned graph has the nodes and edges of the input, the edges that
\* satisfy Hit with weight r and every other edge with the input's weight
WeightsReplaced(o, Hit(_)) ==
    LET M == o.out.modified_graph
    IN  /\ M.nodes = o.G0.nodes
        /\ EdgeSet(M) = DOMAIN o.G0.w
        /\ \A e \in EdgeSet(M) :
             heap[M.adj[e]] = IF Hit(e) THEN o.reduced_weight ELSE o.G0.w[e]

\* C4: after knockdown_node_both_layers with factor r on entity X returns,
\* every edge of the returned graph incident to X.p or X.t has weight exactly
\* r (one value for the edge, whichever endpoint it is read from, the
\* X.p-X.t edge included), every other edge has the weight it had in the
\* input graph, and the nodes and edges are those of the input graph.
C4_NodeKnockdownReplacesWeights ==
    \A i \in 1..Len(Observed) :
        LET o == Observed[i]
            Hit(e) == ProteomicsName(o.target) \in e \/ TranscriptomicsName(o.target) \in e
        IN  o.op = "knockdown_node_both_layers" => WeightsReplaced(o, Hit)

C4_Witness ==
    /\ DirectReturned
    /\ last_call.op = "knockdown_node_both_layers"
    /\ last_call.which = "aggro"
    /\ last_call.target = Base_a
    /\ last_call.reduced_weight = 1
    /\ loaded.aggro = RingGraph
    /\ heap[ret.modified_graph.adj[{ap, at}]] = 1
    /\ heap[ret.modified_graph.adj[{ap, bp}]] = 1
    /\ heap[G_aggro.adj[{ap, bp}]] = 2

\* the graphs the state holds
StateGraphs ==
    << G_aggro, G_stable, held, ReturnedGraph(ret),
       IF sweep.status = "running" THEN ReturnedGraph(sweep.knockdown_aggro) ELSE NoGraph,
       IF sweep.status = "running" THEN ReturnedGraph(sweep.knockdown_stable) ELSE NoGraph >>

\* C5: after any sequence of operator calls and sweep iterations each
\* baseline has the nodes, edges and weights it was loaded with, and no two
\* of the graphs at hand (the baselines, the graph a caller kept, the graph
\* last returned, the two graphs of a sweep iteration) share an edge-data
\* dict, so that a write to one is a write to no other.
C5_InputsUntouchedNoSharing ==
    /\ GraphValue(heap, G_aggro) = loaded.aggro
    /\ GraphValue(heap, G_stable) = loaded.stable
    /\ \A i, j \in 1..Len(StateGraphs) :
         i < j => Cells(StateGraphs[i]) \cap Cells(StateGraphs[j]) = {}
    /\ \A i \in 1..Len(StateGraphs) : Cells(StateGraphs[i]) \subseteq DOMAIN heap

\* two graphs returned by two calls on the same baseline, both changed
C5_Witness ==
    /\ DirectReturned
    /\ last_call.which = "aggro"
    /\ loaded.aggro = RingGraph
    /\ held.nodes = G_aggro.nodes
    /\ GraphValue(heap, held) # loaded.aggro
    /\ GraphValue(heap, ret.modified_graph) # loaded.aggro
    /\ GraphValue(heap, ret.modified_graph) # GraphValue(heap, held)

EntityAbsent(base, G) ==
    ProteomicsName(base) \notin NodeSet(G) \/ TranscriptomicsName(base) \notin NodeSet(G)

EntityWhollyAbsent(base, G) ==
    ProteomicsName(base) \notin NodeSet(G) /\ TranscriptomicsName(base) \notin NodeSet(G)

\* C6 (as claimed): knockdown_node_both_layers of an entity X whose node X.p
\* or X.t is not in the graph does not raise, neither called directly nor
\* from the 'runtype_node' sweep, and when neither node is in the graph the
\* returned graph has the weights of the input graph.
C6_AbsentEntityDoesNotRaise ==
    /\ ( /\ last_call.op = "knockdown_node_both_layers"
         /\ last_call.which \in {"aggro", "stable"}
         /\ EntityAbsent(last_call.target, Baseline(last_call.which)) )
       => /\ exc = None
          /\ EntityWhollyAbsent(last_call.target, Baseline(last_call.which))
               => GraphValue(heap, ret.modified_graph) = loaded[last_call.which]
    /\ ( /\ sweep.status # "idle"
         /\ sweep.knockout_type = "runtype_node"
         /\ EntityAbsent(sweep.knockout_target, G_aggro)
            \/ EntityAbsent(sweep.knockout_target, G_stable) )
       => sweep.status # "raised"

\* C7: knockdown_random_nodes never raises, also when listed nodes are not
\* in the graph; in the returned graph every edge with a listed endpoint has
\* weight r and every other edge the input's weight, nodes and edges are the
\* input's, and the tuple carries the Laplacian of the returned graph and the
\* component diagnostics.
C7_RandomKnockdownSkipsAbsent ==
    /\ last_call.op = "knockdown_random_nodes" => exc = None
    /\ \A i \in 1..Len(Observed) :
         LET o == Observed[i]
             Hit(e) == e \cap Range(o.target) # {}
         IN  o.op = "knockdown_random_nodes" =>
               /\ WeightsReplaced(o, Hit)
               /\ o.out.new_laplacian.m = weighted_laplacian_matrix(heap, o.out.modified_graph)
               /\ o.out.num_disconnected_components = Len(o.out.connected_components_lengths)
               /\ o.out.num_nodes = Len(o.target)

C7_Witness ==
    /\ DirectReturned
    /\ last_call.op = "knockdown_random_nodes"
    /\ last_call.which = "aggro"
    /\ last_call.target = <<bp, cp, ct>>
    /\ last_call.reduced_weight = 0
    /\ loaded.aggro = RingGraph
    /\ heap[ret.modified_graph.adj[{ap, bp}]] = 0
    /\ heap[ret.modified_graph.adj[{ap, at}]] = 1

HasRow(df, description) == \E k \in 1..Len(df) : df[k].description = description

\* C8: for a pathway description with no row in the pathway table,
\* knockdown_pathway_nodes does not raise and returns a graph with the
\* input's weights, reporting 0 target nodes and 0 components; the
\* 'runtype_pathway' sweep counts 0 genes, does not raise, and the graphs of
\* its iterations have the baselines' weights.
C8_PathwayWithoutRow ==
    /\ ( /\ last_call.op = "knockdown_pathway_nodes"
         /\ last_call.which \in {"aggro", "stable"}
         /\ ~HasRow(pathway_df, last_call.target) )
       => /\ exc = None
          /\ GraphValue(heap, ret.modified_graph) = loaded[last_call.which]
          /\ ret.num_nodes = 0
          /\ ret.num_disconnected_components = 0
          /\ ret.connected_components_lengths = <<>>
    /\ ( /\ sweep.status # "idle"
         /\ sweep.knockout_type = "runtype_pathway"
         /\ ~HasRow(pathway_df, sweep.knockout_target) )
       => /\ sweep.num_genes = 0
          /\ sweep.status # "raised"
          /\ SweepIterated =>
               /\ GraphValue(heap, sweep.knockdown_aggro.modified_graph) = loaded.aggro
               /\ GraphValue(heap, sweep.knockdown_stable.modified_graph) = loaded.stable
               /\ sweep.knockdown_aggro.num_nodes = 0
               /\ sweep.knockdown_aggro.num_disconnected_components = 0
               /\ sweep.knockdown_stable.num_nodes = 0
               /\ sweep.knockdown_stable.num_disconnected_components = 0

C8_Witness ==
    /\ sweep.status = "returned"
    /\ sweep.knockout_type = "runtype_pathway"
    /\ sweep.knockout_target = "P3"
    /\ Len(sweep.red_range) = 2
    /\ DOMAIN sweep.results["P3"] # {}
    /\ loaded.aggro = RingGraph

\* the nodes a pathway or random knockdown is aimed at
ListedNodes(o) ==
    IF o.op = "knockdown_random_nodes" THEN Range(o.target)
    ELSE { n \in NodeSet(o.G) \cup {ct, cp} :
             \E k \in 1..Len(pathway_df) :
                 /\ pathway_df[k].description = o.target
                 /\ \E b \in Range(Split(pathway_df[k].genes, "|")) :
                        n \in {ProteomicsName(b), TranscriptomicsName(b)} }

\* C9: for a pathway or random knockdown with factor 0 whose target nodes
\* have no edge between two of them, the reported number of components is
\* the number of target nodes of the graph and every reported size is 1;
\* when every listed node is in the graph and listed once, that is the
\* reported number of target nodes.
C9_IsolatedTargetsCounted ==
    \A i \in 1..Len(Observed) :
        LET o == Observed[i]
            targets == ListedNodes(o) \cap NodeSet(o.G)
        IN  ( /\ o.op \in {"knockdown_pathway_nodes", "knockdown_random_nodes"}
              /\ o.reduced_weight = 0
              /\ \A u, v \in targets : {u, v} \notin EdgeSet(o.G) )
            => /\ o.out.num_disconnected_components = Cardinality(targets)
               /\ Len(o.out.connected_components_lengths) = Cardinality(targets)
               /\ \A k \in 1..Len(o.out.connected_components_lengths) :
                      o.out.connected_components_lengths[k] = 1
               /\ (ListedNodes(o) \subseteq NodeSet(o.G)
                   /\ o.out.num_nodes = Cardinality(ListedNodes(o)))
                  => o.out.num_disconnected_components = o.out.num_nodes

C9_Witness ==
    /\ DirectReturned
    /\ last_call.op = "knockdown_pathway_nodes"
    /\ last_call.which = "aggro"
    /\ last_call.target = "P2"
    /\ last_call.reduced_weight = 0
    /\ loaded.aggro = NoEntityAGraph
    /\ ret.num_nodes = 2
    /\ ret.num_disconnected_components = 2
    /\ heap[ret.modified_graph.adj[{bp, cp}]] = 0

\* the Laplacian L is that of graph G under heap h, with the properties of a
\* weighted graph Laplacian
LaplacianOf(L, h, G) ==
    LET n == Len(G.nodes)
        Strength(i) == SumTo([j \in 1..n |->
                                IF {G.nodes[i], G.nodes[j]} \in EdgeSet(G)
                                THEN h[G.adj[{G.nodes[i], G.nodes[j]}]] ELSE 0], n)
    IN  /\ Len(L) = n
        /\ \A i \in 1..n :
             /\ Len(L[i]) = n
             /\ SumTo(L[i], n) = 0
             /\ SumTo([j \in 1..n |-> L[j][i]], n) = 0
             /\ L[i][i] = Strength(i)
             /\ \A j \in 1..n :
                  /\ L[i][j] = L[j][i]
                  /\ i # j => L[i][j] <= 0

NonNegative(h, G) == \A e \in EdgeSet(G) : h[G.adj[e]] >= 0

\* C10: the Laplacian of every graph with non-negative weights, the
\* baselines and the graph returned after any sequence of operators with
\* factors r >= 0, is symmetric, has every row and every column summing to
\* zero, has no positive off-diagonal entry, and has on its diagonal the
\* sum of the weights of the node's edges.
C10_LaplacianWellFormed ==
    /\ LaplacianOf(orig_aggro_kernel[1].kernel_of, heap, G_aggro)
    /\ LaplacianOf(orig_non_mesench_kernel[1].kernel_of, heap, G_stable)
    /\ ret.kind # "None" =>
         /\ NonNegative(heap, ret.modified_graph)
         /\ LaplacianOf(ret.new_laplacian.m, heap, ret.modified_graph)
    /\ SweepIterated =>
         /\ LaplacianOf(sweep.knockdown_aggro.new_laplacian.m, heap,
                        sweep.knockdown_aggro.modified_graph)
         /\ LaplacianOf(sweep.knockdown_stable.new_laplacian.m, heap,
                        sweep.knockdown_stable.modified_graph)

\* a graph returned by the second operator of a sequence, with an edge of
\* weight 2 left and two edges reduced to 0
C10_Witness ==
    /\ last_call.op = "knockdown_random_nodes"
    /\ last_call.which = "ret"
    /\ exc = None
    /\ loaded.aggro = ProteinOnlyGraph
    /\ GraphValue(heap, ret.modified_graph) =
         GraphOf(<<ap, bp, cp, at>>, {<<ap, bp, 0>>, <<bp, cp, 2>>, <<ap, at, 0>>})

----------------------------------------------------------------------------
(* Properties of run_knockout_analysis *)

\* the keys results has when the loops of the sweep have all run
ExpectedKeys ==
    IF sweep.knockout_type = "runtype_random"
    THEN {RandomKey(sweep.knockout_target, sweep.run_idx[i]) :
            i \in 1..Len(sweep.run_idx)}
    ELSE {sweep.knockout_target}

\* results has a record for every reduction of red_range under every key
ResultsComplete ==
    /\ DOMAIN sweep.results = ExpectedKeys
    /\ \A k \in DOMAIN sweep.results :
         DOMAIN sweep.results[k] = Range(sweep.red_range)

Records ==
    {sweep.results[k][r] : <<k, r>> \in
        UNION {{<<k, r>> : r \in DOMAIN sweep.results[k]} : k \in DOMAIN sweep.results}}

\* C16: every record that run_knockout_analysis writes, for each knockout
\* type and reduction factor, holds the two per-time-step sequences and the
\* two maxima.
C16_RecordsHoldSequencesAndMaxima ==
    sweep.status \in {"running", "returned"} =>
        \A rec \in Records :
            {"gdd_values_trans", "gdd_values_disrupt",
             "max_gdd_trans", "max_gdd_disrupt"} \subseteq DOMAIN rec

DifferentNodeCounts == Len(loaded.aggro.nodes) # Len(loaded.stable.nodes)

\* C17: a sweep on two graphs with different node counts is not ended by
\* the error of subtracting kernel stacks of different shapes.
C17_DifferentNodeCountsAccepted ==
    DifferentNodeCounts =>
        ~ /\ sweep.status = "raised"
          /\ sweep.red_idx <= Len(sweep.red_range)
          /\ exc = "ValueError"

\* the key of results that the iteration just finished wrote under
SweepKey ==
    IF sweep.knockout_type = "runtype_random"
    THEN RandomKey(sweep.knockout_target, sweep.run_idx[sweep.run_pos])
    ELSE sweep.knockout_target

\* the Laplacian the operator of the sweep gives for a baseline, the
\* target of the sweep and reduction r
PerturbedLaplacian(G, r) ==
    (IF sweep.knockout_type = "runtype_random"
     THEN knockdown_random_nodes(heap, G, sweep.node_list, r)
     ELSE knockdown_func(sweep.knockout_type, heap, G, sweep.knockout_target, r)
    ).value.new_laplacian

\* C20: in the record an iteration writes, the transition distance at time
\* index i is the squared Frobenius norm of (modified stable kernel[i] -
\* modified aggressive kernel[i]), both graphs perturbed with the target of
\* the sweep and the reduction of the iteration, and the disruption distance
\* at index i that of (original aggressive kernel[i] - modified aggressive
\* kernel[i]); the maxima are taken over these sequences.
C20_DistancesAtMatchedIndices ==
    SweepIterated =>
        LET r == sweep.red_range[sweep.red_idx - 1]
            rec == sweep.results[SweepKey][r]
            La == PerturbedLaplacian(G_aggro, r)
            Ls == PerturbedLaplacian(G_stable, r)
            Lo == Dense(weighted_laplacian_matrix(heap, G_aggro))
            Times == 1..Len(t_values)
            trans == [i \in Times |->
                        [frob_squared_of |->
                           << [kernel_of |-> Ls.m, t |-> t_values[i]],
                              [kernel_of |-> La.m, t |-> t_values[i]] >>]]
            disrupt == [i \in Times |->
                          [frob_squared_of |->
                             << [kernel_of |-> Lo.m, t |-> t_values[i]],
                                [kernel_of |-> La.m, t |-> t_values[i]] >>]]
        IN  /\ rec.max_gdd_trans = [max_sqrt_of |-> trans]
            /\ rec.max_gdd_disrupt = [max_sqrt_of |-> disrupt]
            /\ sweep.knockout_type # "runtype_random" =>
                  /\ rec.gdd_values_trans = trans
                  /\ rec.gdd_values_disrupt = disrupt

\* a node sweep on two baselines with different Laplacians has written the
\* record of reduction 0
C20_Witness ==
    /\ SweepIterated
    /\ sweep.knockout_type = "runtype_node"
    /\ sweep.red_range[sweep.red_idx - 1] = 0
    /\ orig_aggro_kernel # orig_non_mesench_kernel
    /\ \E i \in 1..Len(t_values) :
         LET d == sweep.results[SweepKey][0].gdd_values_disrupt[i].frob_squared_of
         IN  d[1] # d[2]

----------------------------------------------------------------------------
(* Properties of the demo graph *)

\* The squared Frobenius norm of the difference of two kernels: the kernels
\* exp(-t L) and exp(-t L') of symmetric L, L' at the same t > 0 are equal
\* exactly when L = L', so the distance is 0 then and positive otherwise.
IsZero(distance) == distance.frob_squared_of[1] = distance.frob_squared_of[2]

\* C19: on the double5 demo graph with every weight 1, the two-layer
\* knockdown of node "1" with reduction 1 returns the baseline Laplacian and
\* its disruption distance is 0 at every time; with reduction 0 the
\* Laplacian differs from the baseline and the disruption distance is
\* positive, hence larger than that of reduction 1, at every time.
C19_DemoKnockdown ==
    /\ loaded.aggro = double5_demonet(1)
    /\ sweep.status \in {"running", "returned"}
    /\ sweep.knockout_type = "runtype_node"
    /\ sweep.knockout_target = Str(1)
    =>
    /\ \A r \in DOMAIN sweep.results[Str(1)] :
         LET disrupt == sweep.results[Str(1)][r].gdd_values_disrupt
         IN  /\ Len(disrupt) = Len(t_values)
             /\ r = 1 => \A i \in 1..Len(t_values) : IsZero(disrupt[i])
             /\ r = 0 => \A i \in 1..Len(t_values) : ~IsZero(disrupt[i])
    /\ SweepIterated =>
         LET r == sweep.red_range[sweep.red_idx - 1]
             L0 == Dense(weighted_laplacian_matrix(NewGraph(NoEdges, loaded.aggro).heap,
                                                   NewGraph(NoEdges, loaded.aggro).graph))
         IN  /\ r = 1 => sweep.knockdown_aggro.new_laplacian = L0
             /\ r = 0 => sweep.knockdown_aggro.new_laplacian # L0

\* a returned sweep of node "1" over the reductions 1 and 0
C19_Witness ==
    /\ loaded.aggro = double5_demonet(1)
    /\ sweep.status = "returned"
    /\ sweep.knockout_type = "runtype_node"
    /\ sweep.knockout_target = Str(1)
    /\ sweep.red_range = <<1, 0>>
    /\ DOMAIN sweep.results[Str(1)] = {0, 1}

----------------------------------------------------------------------------
(* Properties of the random pool, the work lists and the merge *)

RandomSwept(r) == rank_pc[r] = "swept" /\ args.pathway /\ permu_runs # 0

\* the pool a rank draws its combinations of a size from
PoolOf(r, num_nodes) ==
    generate_node_combinations(G_aggro, num_nodes, permu_runs, hash_seed[r]).value

\* C11: generate_node_combinations returns the same pool in the same order
\* in every worker process: for each size and index i, the combination at
\* index i is the same on any two ranks.
C11_SamePoolOnEveryWorker ==
    \A r1, r2 \in Ranks :
        RandomSwept(r1) /\ RandomSwept(r2) =>
            \A n \in Range(PyRange(args.path_size_range[1], args.path_size_range[2])) :
                PoolOf(r1, n) = PoolOf(r2, n)

\* C12: the pool of a random sweep has exactly total_combinations entries,
\* and no two of them hold the same set of nodes.
C12_PoolUniqueNodeSets ==
    sweep.status \in {"running", "returned"} /\ sweep.knockout_type = "runtype_random" =>
        LET pool == sweep.unique_node_combinations
        IN  /\ Len(pool) = permu_runs
            /\ \A i, j \in 1..Len(pool) : i # j => Range(pool[i]) # Range(pool[j])

\* two ranks hold a result under the same key
SharedKeys(r1, r2) ==
    (DOMAIN local_target_results[r1] \cap DOMAIN local_target_results[r2])
    \cup (IF RandomSwept(r1) /\ RandomSwept(r2)
          THEN DOMAIN local_rand_results[r1] \cap DOMAIN local_rand_results[r2]
          ELSE {})

\* C13: the result mappings of two different workers have no target key in
\* common, whatever the number of workers and the work lists built.
C13_DisjointTargetKeys ==
    \A r1, r2 \in Ranks :
        r1 # r2 /\ rank_pc[r1] = "swept" /\ rank_pc[r2] = "swept" =>
            SharedKeys(r1, r2) = {}

\* C14: the merge does not complete when two workers contributed the same
\* key: a saved combined mapping comes from pairwise disjoint mappings.
C14_CollisionAbortsMerge ==
    combined_results.kind = "saved" =>
        \A r1, r2 \in Ranks : r1 # r2 => SharedKeys(r1, r2) = {}

----------------------------------------------------------------------------
(* Properties of the records of a sweep *)

\* the record the iteration just finished wrote
LastRecord == sweep.results[SweepKey][sweep.red_range[sweep.red_idx - 1]]

\* the kernels the record's maxima (and sequences) are taken between
TransPairs(rec) ==
    [i \in 1..Len(t_values) |-> rec.max_gdd_trans.max_sqrt_of[i].frob_squared_of]
DisruptPairs(rec) ==
    [i \in 1..Len(t_values) |-> rec.max_gdd_disrupt.max_sqrt_of[i].frob_squared_of]

\* C21 as stated: the transition distance of a record is taken between the
\* unperturbed stable kernel (orig_nonmes_kernel) and the modified
\* aggressive kernel, the disruption distance between the unperturbed
\* aggressive kernel and the modified aggressive kernel.
C21_TransitionAgainstStableBaseline ==
    SweepIterated =>
        \A i \in 1..Len(t_values) :
            /\ TransPairs(LastRecord)[i][1] = orig_non_mesench_kernel[i]
            /\ DisruptPairs(LastRecord)[i][1] = orig_aggro_kernel[i]

\* C21 amended: the transition distance is taken against the kernel of the
\* stable graph perturbed in the same iteration, which is the unperturbed
\* stable kernel only when the perturbation leaves the stable Laplacian as
\* it was; the disruption distance is taken against the unperturbed
\* aggressive kernel; both against the modified aggressive kernel.
C21_TransitionAgainstModifiedStable ==
    SweepIterated =>
        \A i \in 1..Len(t_values) :
            LET modified_stable == [kernel_of |-> sweep.knockdown_stable.new_laplacian.m,
                                    t |-> t_values[i]]
                modified_aggro == [kernel_of |-> sweep.knockdown_aggro.new_laplacian.m,
                                   t |-> t_values[i]]
            IN  /\ TransPairs(LastRecord)[i] = <<modified_stable, modified_aggro>>
                /\ DisruptPairs(LastRecord)[i] = <<orig_aggro_kernel[i], modified_aggro>>
                /\ (modified_stable = orig_non_mesench_kernel[i])
                     <=> (sweep.knockdown_stable.new_laplacian.m
                            = Dense(weighted_laplacian_matrix(heap, G_stable)).m)

\* a pathway sweep has written a record whose transition distance is not
\* taken against the unperturbed stable kernel
C21_Witness ==
    /\ SweepIterated
    /\ sweep.knockout_type = "runtype_pathway"
    /\ TransPairs(LastRecord)[1][1] # orig_non_mesench_kernel[1]
    /\ TransPairs(LastRecord)[1][1].t = t_values[1]

\* C22: in a sweep step the eigendecomposition is performed once for each
\* of the two modified Laplacians, whatever the number of time values.
C22_OneEigendecompositionPerLaplacian ==
    SweepIterated => sweep.eigh_calls = 2

----------------------------------------------------------------------------
(* Further properties of the perturbation operators *)

\* the genes the pathway table lists under a description
GenesOf(description) ==
    {b \in UNION {Range(Split(pathway_df[k].genes, "|")) : k \in 1..Len(pathway_df)} :
        \E k \in 1..Len(pathway_df) :
            /\ pathway_df[k].description = description
            /\ b \in Range(Split(pathway_df[k].genes, "|"))}

\* C23: knockdown_pathway_nodes with factor r never raises, whether or not
\* the layer nodes of the listed genes are in the graph; in the graph it
\* returns every edge with an endpoint gene.p or gene.t of a gene listed for
\* the pathway has weight exactly r, every other edge has its input weight,
\* and the nodes and edges are those of the input.
C23_PathwayKnockdownReplacesWeights ==
    /\ last_call.op = "knockdown_pathway_nodes" => exc = None
    /\ \A i \in 1..Len(Observed) :
         LET o == Observed[i]
             Hit(e) == \E b \in GenesOf(o.target) :
                          ProteomicsName(b) \in e \/ TranscriptomicsName(b) \in e
         IN  o.op = "knockdown_pathway_nodes" => WeightsReplaced(o, Hit)

\* pathway P2 (gene c) knocked down to 0 on a graph with c.p and without
\* c.t: the edge at c.p is 0, the other edges keep their weights
C23_Witness ==
    /\ DirectReturned
    /\ last_call.op = "knockdown_pathway_nodes"
    /\ last_call.which = "aggro"
    /\ last_call.target = "P2"
    /\ last_call.reduced_weight = 0
    /\ loaded.aggro = ProteinOnlyGraph
    /\ heap[ret.modified_graph.adj[{bp, cp}]] = 0
    /\ heap[ret.modified_graph.adj[{ap, bp}]] = 1
    /\ heap[ret.modified_graph.adj[{ap, at}]] = 1

\* D - W of graph G under heap h, rows and columns in the order of `order`
DMinusW(h, G, order) ==
    LET n == Len(order)
        W(i, j) == IF {order[i], order[j]} \in EdgeSet(G) /\ i # j
                   THEN h[G.adj[{order[i], order[j]}]] ELSE 0
    IN  [i \in 1..n |-> [j \in 1..n |->
           IF i = j THEN SumTo([k \in 1..n |-> W(i, k)], n) ELSE 0 - W(i, j)]]

\* C24: the Laplacian each operator returns (knockout_node,
\* knockdown_node_both_layers, knockdown_pathway_nodes, and, made dense,
\* knockdown_random_nodes) is D - W of the graph it returns, with rows and
\* columns in the node order of the input graph.
C24_LaplacianOfReturnedGraph ==
    \A i \in 1..Len(Observed) :
        LET o == Observed[i]
        IN  /\ o.out.modified_graph.nodes = o.G0.nodes
            /\ o.out.new_laplacian.m = DMinusW(heap, o.out.modified_graph, o.G0.nodes)

\* knockout_node has removed the edges of a.p, and the Laplacian returned
\* is no longer that of the input graph
C24_Witness ==
    /\ DirectReturned
    /\ last_call.op = "knockout_node"
    /\ last_call.which = "aggro"
    /\ last_call.target = ap
    /\ loaded.aggro = RingGraph
    /\ ret.new_laplacian.m # DMinusW(heap, G_aggro, G_aggro.nodes)
    /\ ret.new_laplacian.m[1][1] = 0
    /\ ret.new_laplacian.m[2][2] = 1

----------------------------------------------------------------------------
(* Further properties of run_knockout_analysis *)

\* C25: the mapping run_knockout_analysis returns is complete and has
\* nothing else: for a node or pathway target its only key is the target,
\* for the random type it has as many keys as run_idx has run indices, one
\* for each of them; under every key there is exactly one record for each
\* reduction factor of red_range.
C25_ReturnedMappingComplete ==
    sweep.status = "returned" =>
        /\ IF sweep.knockout_type = "runtype_random"
           THEN /\ Cardinality(DOMAIN sweep.results) = Len(sweep.run_idx)
                /\ \A i \in 1..Len(sweep.run_idx) :
                     RandomKey(sweep.knockout_target, sweep.run_idx[i])
                         \in DOMAIN sweep.results
           ELSE DOMAIN sweep.results = {sweep.knockout_target}
        /\ \A k \in DOMAIN sweep.results :
             /\ DOMAIN sweep.results[k] = Range(sweep.red_range)
             /\ \A r \in DOMAIN sweep.results[k] :
                  {"max_gdd_trans", "max_gdd_disrupt"} \subseteq DOMAIN sweep.results[k][r]

\* a random sweep over two run indices and two reduction factors returned
C25_Witness ==
    /\ sweep.status = "returned"
    /\ sweep.knockout_type = "runtype_random"
    /\ sweep.run_idx = <<0, 1>>
    /\ sweep.red_range = <<0, 1>>
    /\ Cardinality(DOMAIN sweep.results) = 2

\* C26: each record of a pathway or random sweep holds the connectivity
\* diagnostics its perturbation operator returned: the number of connected
\* components among the target nodes and their sizes.
C26_RecordsHoldConnectivity ==
    /\ sweep.status \in {"running", "returned"}
    /\ sweep.knockout_type \in {"runtype_pathway", "runtype_random"}
    => \A rec \in Records :
           {"num_disconnected_components", "connected_components_lengths"}
               \subseteq DOMAIN rec

----------------------------------------------------------------------------
(* Properties of the component diagnostics *)

RECURSIVE Grow(_, _, _)
\* the nodes of T joined to S by edges of E that stay inside T
Grow(S, T, E) ==
    LET S2 == S \cup {v \in T : \E u \in S : {u, v} \in E}
    IN  IF S2 = S THEN S ELSE Grow(S2, T, E)

\* the connected components of the subgraph induced on T by the edges E
InducedComponents(T, E) == {Grow({u}, T, E) : u \in T}

\* C27: the component count and sizes that knockdown_pathway_nodes and
\* knockdown_random_nodes report are, for every factor r, those of the
\* subgraph induced on the target nodes in the unmodified graph; the sizes
\* sum to the number of distinct target nodes in the graph, which is at most
\* the reported number of target nodes.
C27_ComponentsIndependentOfFactor ==
    \A i \in 1..Len(Observed) :
        LET o == Observed[i]
            T == ListedNodes(o) \cap Range(o.G0.nodes)
            comps == InducedComponents(T, DOMAIN o.G0.w)
            lengths == o.out.connected_components_lengths
        IN  o.op \in {"knockdown_pathway_nodes", "knockdown_random_nodes"} =>
              /\ o.out.num_disconnected_components = Cardinality(comps)
              /\ Len(lengths) = Cardinality(comps)
              /\ \A k \in 1..Cardinality(T) :
                   Cardinality({j \in 1..Len(lengths) : lengths[j] = k})
                     = Cardinality({c \in comps : Cardinality(c) = k})
              /\ SumTo(lengths, Len(lengths)) = Cardinality(T)
              /\ Cardinality(T) <= o.out.num_nodes

\* a random knockdown to 0 of a.p and a.t: the edge a.p-a.t has weight 0
\* and a.p, a.t are still reported as one component of size 2
C27_Witness ==
    /\ DirectReturned
    /\ last_call.op = "knockdown_random_nodes"
    /\ last_call.which = "aggro"
    /\ last_call.target = <<ap, at>>
    /\ last_call.reduced_weight = 0
    /\ loaded.aggro = RingGraph
    /\ heap[ret.modified_graph.adj[{ap, at}]] = 0
    /\ ret.num_disconnected_components = 1
    /\ ret.connected_components_lengths = <<2>>
    /\ ret.num_nodes = 2


\* a graph with the given nodes, edges and weights, as a caller holds it
OnValue(value) ==
    LET g == NewGraph(NoEdges, value)
    IN  [heap |-> RenameHeap(g.heap, "new", SlotAggro),
         graph |-> RenameGraph(g.graph, "new", SlotAggro)]

\* nodes, edges and weights of the graph an operator call returned
WeightsOf(out) == GraphValue(out.heap, out.value.modified_graph)

\* one of the three knockdown operators applied to a graph value
ApplyKnockdown(op, value, target, reduced_weight) ==
    LET g == OnValue(value)
    IN  IF op = "knockdown_node_both_layers"
        THEN knockdown_node_both_layers(g.heap, g.graph, target, reduced_weight)
        ELSE IF op = "knockdown_pathway_nodes"
        THEN knockdown_pathway_nodes(g.heap, g.graph, pathway_df, target, reduced_weight)
        ELSE knockdown_random_nodes(g.heap, g.graph, target, reduced_weight)

RECURSIVE NodeKnockdownsInTurn(_, _, _)
\* knockdown_node_both_layers applied to each base name in turn, each call
\* on the graph the call before returned
NodeKnockdownsInTurn(value, bases, reduced_weight) ==
    IF bases = <<>> THEN value
    ELSE NodeKnockdownsInTurn(
             WeightsOf(ApplyKnockdown("knockdown_node_both_layers", value,
                                      Head(bases), reduced_weight)),
             Tail(bases), reduced_weight)

\* every order in which the base names of a list can be taken
OrdersOf(bases) ==
    {s \in [1..Len(bases) -> Range(bases)] : Range(s) = Range(bases)}

KnockdownOps ==
    {"knockdown_node_both_layers", "knockdown_pathway_nodes", "knockdown_random_nodes"}

\* C28: a knockdown operator applied with the same target and the same
\* factor r to the graph it returned returns a graph with the same edge
\* weights; and when every gene of a pathway is in both layers, the pathway
\* knockdown returns the edge weights that knockdown_node_both_layers gives
\* when applied with r to the genes one after another in any order, and that
\* knockdown_random_nodes gives on the list of their .p and .t nodes.
C28_KnockdownIdempotentAnyOrder ==
    \A i \in 1..Len(Observed) :
        LET o == Observed[i]
            r == o.reduced_weight
            v == GraphValue(heap, o.out.modified_graph)
            again == ApplyKnockdown(o.op, v, o.target, r)
            genes == PathwayBaseNodeNames(pathway_df, o.target)
            layer_nodes == [k \in 1..Len(genes) |-> ProteomicsName(genes[k])]
                           \o [k \in 1..Len(genes) |-> TranscriptomicsName(genes[k])]
        IN  o.op \in KnockdownOps =>
              /\ again.exc = None
              /\ WeightsOf(again) = v
              /\ (/\ o.op = "knockdown_pathway_nodes"
                  /\ Range(layer_nodes) \subseteq Range(o.G0.nodes))
                 => /\ \A order \in OrdersOf(genes) :
                         NodeKnockdownsInTurn(o.G0, order, r) = v
                    /\ WeightsOf(ApplyKnockdown("knockdown_random_nodes", o.G0,
                                                layer_nodes, r)) = v

\* pathway P1 (genes a and b, both in both layers of the ring) knocked down
\* to 1: the edge a.p-b.p of weight 2 is written from both of its ends
C28_Witness ==
    /\ DirectReturned
    /\ last_call.op = "knockdown_pathway_nodes"
    /\ last_call.which = "aggro"
    /\ last_call.target = "P1"
    /\ last_call.reduced_weight = 1
    /\ loaded.aggro = RingGraph
    /\ GraphValue(heap, ret.modified_graph).w[{ap, bp}] = 1


----------------------------------------------------------------------------
(* Termination of the pool generator *)

\* a call of generate_node_combinations has been made by a random sweep
PoolCalled == sweep.status # "idle" /\ sweep.knockout_type = "runtype_random"

\* it never left its while loop
PoolHung == sweep.status = "hung"

\* it raised (sample: larger than population), before any run was started
PoolRaised == sweep.status = "raised" /\ exc = "ValueError" /\ sweep.run_pos = 0

\* the nodes of the aggressive graph whose name ends in '.p'
ProteomicsNodesOf(value) ==
    {x \in Range(value.nodes) : Len(x) >= 2 /\ x[Len(x) - 1] = "." /\ x[Len(x)] = "p"}

\* the ordered samples of k different elements of a set
OrderedSamples(S, k) ==
    {s \in [1..k -> S] : \A i, j \in 1..k : i # j => s[i] # s[j]}

\* the tuple the generator adds for a sample: the sample, then the same
\* names with the suffix '.t'
TupleOf(sample) ==
    sample \o [i \in 1..Len(sample) |->
                 SubSeq(sample[i], 1, Len(sample[i]) - 1) \o <<"t">>]

----------------------------------------------------------------------------
(* Run indices and result keys of the random sweeps *)

\* the rank has been handed its run indices
RunsHandedOut(r) == rank_pc[r] \in {"done", "swept", "raised", "hung"}

\* the sizes of the random pathways: range(*path_size_range)
PathwaySizes == PyRange(args.path_size_range[1], args.path_size_range[2])

====
